---------------------------- MODULE Spec2Model ----------------------------
(***************************************************************************)
(* Glass firing / annealing calculator.                                    *)
(*                                                                         *)
(* The schedule engine (src/src/lib/annealingLogic.ts, the variant with    *)
(* shape and conservativeness that src/src/App.tsx imports, lines 315-694) *)
(* the form that drives it (src/src/App.tsx) and the chart that draws its  *)
(* waypoints (AnnealingChart, src/unnamed/part_001).                       *)
(*                                                                         *)
(* JavaScript numbers are modelled as exact rationals within the range of  *)
(* an IEEE double, extended by the special values NaN, +Infinity and       *)
(* -Infinity.                                                              *)
(***************************************************************************)
EXTENDS Integers, Sequences, FiniteSets, TLC

(***************************************************************************)
(* Natural numbers of any size: little-endian sequences of base-Base       *)
(* digits without leading zeros, <<>> being 0.  The model checker's own    *)
(* integers are 32 bits wide; the products of the rate formulas are not.   *)
(***************************************************************************)
Base == 10 ^ 4

Limb(a, i) == IF i <= Len(a) THEN a[i] ELSE 0

RECURSIVE Trim(_)
Trim(a) == IF a = <<>> THEN a
           ELSE IF a[Len(a)] = 0 THEN Trim(SubSeq(a, 1, Len(a) - 1)) ELSE a

RECURSIVE NatOf(_)
NatOf(n) == IF n = 0 THEN <<>> ELSE <<n % Base>> \o NatOf(n \div Base)

\* The limbs lo .. hi of a result and the carry out of limb hi are computed a half
\* of the range at a time, the carry of the lower half going into the upper half.

\* the limbs of the lower half followed by those of the upper half, and its carry
Halves(low, high) == <<low[1] \o high[1], high[2]>>

\* the limbs and, if it is not 0, the carry as one more limb
WithCarry(r) == IF r[2] = 0 THEN r[1] ELSE r[1] \o <<r[2]>>

\* the limbs lo .. hi of a + b + c and the carry
RECURSIVE BAddC(_, _, _, _, _)
BAddUpper(a, b, lo, hi, low) == Halves(low, BAddC(a, b, lo, hi, low[2]))

BAddC(a, b, lo, hi, c) ==
    IF lo = hi
    THEN <<<<(Limb(a, lo) + Limb(b, lo) + c) % Base>>,
           (Limb(a, lo) + Limb(b, lo) + c) \div Base>>
    ELSE BAddUpper(a, b, (lo + hi) \div 2 + 1, hi, BAddC(a, b, lo, (lo + hi) \div 2, c))

BAdd(a, b) ==
    IF a = <<>> THEN b ELSE IF b = <<>> THEN a
    ELSE WithCarry(BAddC(a, b, 1, IF Len(a) < Len(b) THEN Len(b) ELSE Len(a), 0))

\* -1, 0, 1 as the limbs lo .. hi of a are below, equal to, above those of b
RECURSIVE BCmpFrom(_, _, _, _)
BCmpLower(a, b, lo, hi, top) == IF top # 0 THEN top ELSE BCmpFrom(a, b, lo, hi)

BCmpFrom(a, b, lo, hi) ==
    IF lo = hi THEN (IF a[lo] < b[lo] THEN -1 ELSE IF a[lo] > b[lo] THEN 1 ELSE 0)
    ELSE BCmpLower(a, b, lo, (lo + hi) \div 2, BCmpFrom(a, b, (lo + hi) \div 2 + 1, hi))

\* -1, 0, 1 as a < b, a = b, a > b
BCmp(a, b) ==
    IF Len(a) < Len(b) THEN -1 ELSE IF Len(a) > Len(b) THEN 1
    ELSE IF a = <<>> THEN 0 ELSE BCmpFrom(a, b, 1, Len(a))

\* the limbs lo .. hi of a - b - c and the borrow
RECURSIVE BSubC(_, _, _, _, _)
BSubUpper(a, b, lo, hi, low) == Halves(low, BSubC(a, b, lo, hi, low[2]))

BSubC(a, b, lo, hi, c) ==
    IF lo = hi
    THEN <<<<(a[lo] - Limb(b, lo) - c + Base) % Base>>,
           IF a[lo] - Limb(b, lo) - c < 0 THEN 1 ELSE 0>>
    ELSE BSubUpper(a, b, (lo + hi) \div 2 + 1, hi, BSubC(a, b, lo, (lo + hi) \div 2, c))

\* a - b for a >= b
BSub(a, b) == IF b = <<>> THEN a ELSE Trim(BSubC(a, b, 1, Len(a), 0)[1])

\* the limbs lo .. hi of a * k + c and the carry
RECURSIVE BMulSmallC(_, _, _, _, _)
BMulSmallUpper(a, k, lo, hi, low) == Halves(low, BMulSmallC(a, k, lo, hi, low[2]))

BMulSmallC(a, k, lo, hi, c) ==
    IF lo = hi THEN <<<<(a[lo] * k + c) % Base>>, (a[lo] * k + c) \div Base>>
    ELSE BMulSmallUpper(a, k, (lo + hi) \div 2 + 1, hi,
                        BMulSmallC(a, k, lo, (lo + hi) \div 2, c))

\* a * k for 0 <= k < Base
BMulSmall(a, k) ==
    IF k = 0 \/ a = <<>> THEN <<>> ELSE IF k = 1 THEN a
    ELSE WithCarry(BMulSmallC(a, k, 1, Len(a), 0))

\* a * Base^n
Shifted(a, n) == IF a = <<>> THEN a ELSE [i \in 1 .. n |-> 0] \o a

\* a times the limbs lo .. hi of b
RECURSIVE BMulFrom(_, _, _, _)
BMulFrom(a, b, lo, hi) ==
    IF lo = hi THEN BMulSmall(a, b[lo])
    ELSE BAdd(BMulFrom(a, b, lo, (lo + hi) \div 2),
              Shifted(BMulFrom(a, b, (lo + hi) \div 2 + 1, hi), (lo + hi) \div 2 + 1 - lo))

BMul(a, b) ==
    IF a = <<>> \/ b = <<>> THEN <<>>
    ELSE IF Len(b) <= Len(a) THEN BMulFrom(a, b, 1, Len(b))
    ELSE BMulFrom(b, a, 1, Len(a))

\* the value of a natural below Base^2 as an integer
Small(a) == Limb(a, 1) + Base * Limb(a, 2)

RECURSIVE GCD(_, _)
GCD(a, b) == IF b = 0 THEN a ELSE GCD(b, a % b)

\* the largest k in lo .. hi-1 with k * b <= r, given lo * b <= r < hi * b
RECURSIVE Digit(_, _, _, _)
Digit(r, b, lo, hi) ==
    IF lo + 1 >= hi THEN lo
    ELSE LET mid == (lo + hi) \div 2
         IN  IF BCmp(BMulSmall(b, mid), r) <= 0 THEN Digit(r, b, mid, hi)
             ELSE Digit(r, b, lo, mid)

\* long division: the quotient digits i, i-1, .. 1 of a by b, r the running remainder
RECURSIVE LongDiv(_, _, _, _)
LongDiv(a, b, i, r) ==
    IF i = 0 THEN <<>>
    ELSE LET r1 == Trim(<<a[i]>> \o r)
             k == IF BCmp(r1, b) < 0 THEN 0 ELSE Digit(r1, b, 1, Base)
         IN  LongDiv(a, b, i - 1, IF k = 0 THEN r1 ELSE BSub(r1, BMulSmall(b, k))) \o <<k>>

\* floor(a / b), b # 0
BDiv(a, b) ==
    IF Len(a) <= 2 /\ Len(b) <= 2 THEN NatOf(Small(a) \div Small(b))
    ELSE Trim(LongDiv(a, b, Len(a), <<>>))

(***************************************************************************)
(* JavaScript numbers: <<s, n, d>> is the rational s * n / d, s the sign   *)
(* (-1, 0, 1) and n, d naturals, d # 0.  Fractions whose terms are below   *)
(* Base^2 are kept in lowest terms; equality of numbers is Eq, not =.      *)
(* d = 0 encodes the IEEE special values NaN, +Infinity and -Infinity.     *)
(* undefined, null and the empty string of a form field are Undef.         *)
(* Sums, products and quotients are exact within the range of an IEEE      *)
(* double and are +-Infinity or 0 beyond it (toDouble).                     *)
(***************************************************************************)
Undef == <<>>
NaN == <<0, <<>>, <<>>>>
PInf == <<1, <<1>>, <<>>>>
NInf == <<-1, <<1>>, <<>>>>
Zero == <<0, <<>>, <<1>>>>

\* s * a / b in lowest terms, g the greatest common divisor of a and b
Lowest(s, a, b, g) == <<s, NatOf(a \div g), NatOf(b \div g)>>

Reduced(s, a, b) == Lowest(s, a, b, GCD(a, b))

Mk(s, n, d) ==
    IF n = <<>> \/ s = 0 THEN Zero
    ELSE IF Len(n) <= 2 /\ Len(d) <= 2 THEN Reduced(s, Small(n), Small(d))
    ELSE <<s, n, d>>

\* 2^k as a natural
RECURSIVE BPow2(_)
BPow2(k) ==
    IF k = 0 THEN <<1>>
    ELSE IF k % 2 = 1 THEN BMulSmall(BPow2(k - 1), 2)
    ELSE BMul(BPow2(k \div 2), BPow2(k \div 2))

\* the least magnitude that rounds to Infinity, 2^1024 - 2^970
DoubleOverflow == BSub(BPow2(1024), BPow2(970))
\* magnitudes of at most 1 / DoubleUnderflow = 2^-1075 round to 0
DoubleUnderflow == BPow2(1075)

\* the range of an IEEE double: a finite arithmetic result of magnitude DoubleOverflow
\* or more is +-Infinity and one of magnitude 1 / DoubleUnderflow or less is 0 (results
\* are not rounded to 53 bits).  Numbers with less than 76 limbs more in the numerator
\* and less than 79 more in the denominator lie between 10^-316 and 10^308
toDouble(x) ==
    IF x[3] = <<>> \/ x[1] = 0 THEN x
    ELSE IF Len(x[2]) - Len(x[3]) < 76 /\ Len(x[3]) - Len(x[2]) < 79 THEN x
    ELSE IF Len(x[2]) > Len(x[3])
         THEN (IF BCmp(x[2], BMul(DoubleOverflow, x[3])) >= 0 THEN <<x[1], <<1>>, <<>>>>
               ELSE x)
    ELSE IF BCmp(BMul(x[2], DoubleUnderflow), x[3]) <= 0 THEN Zero
    ELSE x

\* the limbs of the numerator of a finite x # 0 less those of its denominator: the
\* magnitude of x lies between Base^(LimbExp(x) - 1) and Base^(LimbExp(x) + 1)
LimbExp(x) == Len(x[2]) - Len(x[3])

\* the quotient or product of magnitude between Base^(e - 2) and Base^(e + 2), when
\* not 0: beyond the range of a double without being computed if e >= 80 (10^312 and
\* more) or e <= -83 (10^-324 and less), computed as exact otherwise
Ranged(s, e, exact) ==
    IF s = 0 THEN Zero
    ELSE IF e >= 80 THEN <<s, <<1>>, <<>>>>
    ELSE IF e <= -83 THEN Zero
    ELSE toDouble(exact)

Abs(k) == IF k < 0 THEN -k ELSE k
Sgn(k) == IF k < 0 THEN -1 ELSE IF k > 0 THEN 1 ELSE 0

\* the number n / d of two integers, d # 0
Frac(n, d) == Mk(Sgn(n) * Sgn(d), NatOf(Abs(n)), NatOf(Abs(d)))

\* the number of an integer
R(n) == IF n = 0 THEN Zero ELSE <<Sgn(n), NatOf(Abs(n)), <<1>>>>

IsNaN(x) == x = NaN
IsFinite(x) == x # Undef /\ x[3] # <<>>
IsInf(x) == x = PInf \/ x = NInf
IsZero(x) == x = Zero

Neg(x) == <<-x[1], x[2], x[3]>>

\* the sign and the magnitude of the signed sum s1 * a + s2 * b of two naturals,
\* c comparing a with b
SumSign(s1, s2, c) ==
    IF s1 = 0 THEN s2
    ELSE IF s2 = 0 \/ s1 = s2 THEN s1
    ELSE IF c = 0 THEN 0 ELSE IF c > 0 THEN s1 ELSE s2

SumMag(s1, a, s2, b, c) ==
    IF s1 = 0 THEN b
    ELSE IF s2 = 0 THEN a
    ELSE IF s1 = s2 THEN BAdd(a, b)
    ELSE IF c = 0 THEN <<>> ELSE IF c > 0 THEN BSub(a, b) ELSE BSub(b, a)

\* the signed sum s1 * a + s2 * b over the denominator d
SignedSum(s1, a, s2, b, d, c) ==
    toDouble(Mk(SumSign(s1, s2, c), SumMag(s1, a, s2, b, c), d))

\* x + y of two finite numbers, n1 / d and n2 / d their magnitudes over one denominator
AddOver(x, y, n1, n2, d) == SignedSum(x[1], n1, y[1], n2, d, BCmp(n1, n2))

Add(x, y) ==
    IF IsNaN(x) \/ IsNaN(y) THEN NaN
    ELSE IF IsInf(x) THEN (IF IsInf(y) /\ y # x THEN NaN ELSE x)
    ELSE IF IsInf(y) THEN y
    ELSE AddOver(x, y,
                 IF x[3] = y[3] THEN x[2] ELSE BMul(x[2], y[3]),
                 IF x[3] = y[3] THEN y[2] ELSE BMul(y[2], x[3]),
                 IF x[3] = y[3] THEN x[3] ELSE BMul(x[3], y[3]))

Sub(x, y) == Add(x, Neg(y))

Mul(x, y) ==
    IF IsNaN(x) \/ IsNaN(y) THEN NaN
    ELSE IF IsInf(x) \/ IsInf(y)
         THEN (IF x[1] = 0 \/ y[1] = 0 THEN NaN ELSE <<x[1] * y[1], <<1>>, <<>>>>)
    ELSE Ranged(x[1] * y[1], LimbExp(x) + LimbExp(y),
                Mk(x[1] * y[1], BMul(x[2], y[2]), BMul(x[3], y[3])))

\* IEEE division: x / 0 is +-Infinity (NaN for 0 / 0), finite / Infinity is 0
Div(x, y) ==
    IF IsNaN(x) \/ IsNaN(y) THEN NaN
    ELSE IF IsInf(y) THEN (IF IsInf(x) THEN NaN ELSE Zero)
    ELSE IF IsZero(y) THEN (IF IsZero(x) THEN NaN ELSE <<x[1], <<1>>, <<>>>>)
    ELSE IF IsInf(x) THEN <<x[1] * y[1], <<1>>, <<>>>>
    ELSE Ranged(x[1] * y[1], LimbExp(x) - LimbExp(y),
                Mk(x[1] * y[1], BMul(x[2], y[3]), BMul(x[3], y[2])))

\* -1, 0, 1 as x < y, x = y, x > y, for x and y not NaN
Cmp(x, y) ==
    IF IsInf(x) \/ IsInf(y)
    THEN (IF x = y THEN 0 ELSE IF x = NInf \/ y = PInf THEN -1 ELSE 1)
    ELSE IF x[1] # y[1] THEN (IF x[1] < y[1] THEN -1 ELSE 1)
    ELSE IF x[1] = 0 THEN 0
    ELSE x[1] * BCmp(BMul(x[2], y[3]), BMul(y[2], x[3]))

\* every comparison with NaN is false
Lt(x, y) == ~IsNaN(x) /\ ~IsNaN(y) /\ Cmp(x, y) < 0
Gt(x, y) == Lt(y, x)
Le(x, y) == ~IsNaN(x) /\ ~IsNaN(y) /\ Cmp(x, y) <= 0
Ge(x, y) == Le(y, x)
Eq(x, y) == ~IsNaN(x) /\ ~IsNaN(y) /\ Cmp(x, y) = 0

\* the test x !== undefined in place of truthiness
Defined(x) == x # Undef

\* JavaScript truthiness of an optional number: undefined, NaN and 0 are falsy
Truthy(x) == x # Undef /\ x # NaN /\ ~IsZero(x)

\* Math.max(a, b)
MathMax(a, b) == IF IsNaN(a) \/ IsNaN(b) THEN NaN ELSE IF Lt(a, b) THEN b ELSE a

\* Math.floor
MathFloor(x) ==
    IF x[3] = <<>> \/ x[1] = 0 THEN x
    ELSE IF x[1] > 0 THEN Mk(1, BDiv(x[2], x[3]), <<1>>)
    ELSE Mk(-1, BDiv(BSub(BAdd(x[2], x[3]), <<1>>), x[3]), <<1>>)

\* Math.round: the nearest integer, halves towards +Infinity
MathRound(x) == IF x[3] = <<>> THEN x ELSE MathFloor(Add(x, Frac(1, 2)))

\* Math.pow(x, 2)
MathPow2(x) == Mul(x, x)

\* truncation towards 0
MathTrunc(q) == IF q[1] < 0 THEN Neg(MathFloor(Neg(q))) ELSE MathFloor(q)

\* the JavaScript remainder x % k: the sign of the result is the sign of x
JsRem(x, k) == IF ~IsFinite(x) THEN NaN ELSE Sub(x, Mul(k, MathTrunc(Div(x, k))))

(***************************************************************************)
(* The glass library and the physics tables                                *)
(***************************************************************************)
GlassTypes ==
    {"Bullseye (COE 90)", "Oceanside / Spectrum (COE 96)", "Effetre / Moretti (COE 104)",
     "Simax / Pyrex (Borosilicate COE 33)", "Satake (COE 110-120)", "Custom"}

ScheduleModes == {"anneal_only", "tack_fuse", "full_fuse", "cast", "slump"}
UnitSystems == {"metric", "imperial"}
ShapeFactors == {"slab", "uneven", "hollow_deep"}
ConservativenessLevels == {"fast", "standard", "cautious"}

SHAPE_FACTORS(shape) ==
    CASE shape = "slab" -> R(1)
      [] shape = "uneven" -> Frac(3, 2)
      [] shape = "hollow_deep" -> R(2)

CONSERVATIVENESS_FACTORS(c) ==
    CASE c = "fast" -> Frac(3, 4)
      [] c = "standard" -> R(1)
      [] c = "cautious" -> Frac(3, 2)

GlassProps(a, s, b, sl, tk, ff, ca) ==
    [anneal_temp |-> a, strain_point |-> s, brand_factor |-> b, slump_temp |-> sl,
     tack_fuse_temp |-> tk, full_fuse_temp |-> ff, cast_temp |-> ca]

\* a library whose Bullseye strain point lies above its anneal temperature
GLASS_LIBRARY_StrainAboveAnneal(g) ==
    IF g = "Custom" THEN GlassProps(Undef, Undef, R(1), Undef, Undef, Undef, Undef)
    ELSE GlassProps(R(900), R(961), R(1), R(1225), R(1350), R(1490), R(1525))

GLASS_LIBRARY(g) ==
    CASE g = "Bullseye (COE 90)" ->
             GlassProps(R(961), R(900), R(1), R(1225), R(1350), R(1490), R(1525))
      [] g = "Oceanside / Spectrum (COE 96)" ->
             GlassProps(R(950), R(850), R(1), R(1225), R(1350), R(1465), R(1500))
      [] g = "Effetre / Moretti (COE 104)" ->
             GlassProps(R(968), R(860), R(1), R(1200), R(1350), R(1450), R(1480))
      [] g = "Simax / Pyrex (Borosilicate COE 33)" ->
             GlassProps(R(1050), R(950), Frac(18, 10), R(1300), R(1600), R(2000), R(2200))
      [] g = "Satake (COE 110-120)" ->
             GlassProps(R(896), R(806), Frac(3, 4), R(1150), R(1300), R(1400), R(1450))
      [] g = "Custom" ->
             GlassProps(Undef, Undef, R(1), Undef, Undef, Undef, Undef)

(***************************************************************************)
(* calculateSchedule: resolution of defaults and overrides.                *)
(* A request r is the record of the fourteen arguments.                    *)
(***************************************************************************)
toF(units, t) == IF units = "metric" THEN Add(Div(Mul(t, R(9)), R(5)), R(32)) ELSE t

\* toOutputTemp without the conversion
toOutputTempUnconverted(units, f) == f

toOutputTemp(units, f) ==
    IF units = "metric" THEN Div(Mul(Sub(f, R(32)), R(5)), R(9)) ELSE f

\* toRate without the conversion
toRateUnconverted(units, x) == x

toRate(units, x) == IF units = "metric" THEN Div(Mul(x, R(5)), R(9)) ELSE x

\* a ?? b
Nullish(a, b) == IF a = Undef THEN b ELSE a

\* if (!x) x = fallback
orElse(x, fallback) == IF ~Truthy(x) THEN fallback ELSE x

annealTemp(r) ==
    orElse(IF r.glassType = "Custom"
           THEN (IF Truthy(r.customAnneal) THEN toF(r.units, r.customAnneal) ELSE R(900))
           ELSE (IF Truthy(r.customAnneal) THEN toF(r.units, r.customAnneal)
                 ELSE GLASS_LIBRARY(r.glassType).anneal_temp),
           R(900))

strainPoint(r) ==
    orElse(IF r.glassType = "Custom"
           THEN (IF Truthy(r.customStrain) THEN toF(r.units, r.customStrain) ELSE R(700))
           ELSE (IF Truthy(r.customStrain) THEN toF(r.units, r.customStrain)
                 ELSE GLASS_LIBRARY(r.glassType).strain_point),
           R(700))

\* annealTemp + offset for every glass
processDefaultFromAnneal(props, a, mode) ==
    CASE mode = "slump" -> Add(a, R(325))
      [] mode = "tack_fuse" -> Add(a, R(400))
      [] mode = "full_fuse" -> Add(a, R(550))
      [] mode = "cast" -> Add(a, R(600))

\* props.<mode>_temp ?? (annealTemp + offset)
processDefault(props, a, mode) ==
    CASE mode = "slump" -> Nullish(props.slump_temp, Add(a, R(325)))
      [] mode = "tack_fuse" -> Nullish(props.tack_fuse_temp, Add(a, R(400)))
      [] mode = "full_fuse" -> Nullish(props.full_fuse_temp, Add(a, R(550)))
      [] mode = "cast" -> Nullish(props.cast_temp, Add(a, R(600)))

processTemp(r) ==
    IF r.mode = "anneal_only" THEN annealTemp(r)
    ELSE IF Truthy(r.customProcessTemp) THEN toF(r.units, r.customProcessTemp)
    ELSE processDefault(GLASS_LIBRARY(r.glassType), annealTemp(r), r.mode)

\* no default hold for slump
processHoldDefaultNoSlump(mode) ==
    CASE mode = "slump" -> R(0)
      [] mode = "tack_fuse" -> R(10)
      [] mode = "full_fuse" -> R(15)
      [] mode = "cast" -> R(30)

processHoldDefault(mode) ==
    CASE mode = "slump" -> R(20)
      [] mode = "tack_fuse" -> R(10)
      [] mode = "full_fuse" -> R(15)
      [] mode = "cast" -> R(30)

\* the hold without the indefinite flag
processHoldMinsTimed(r) ==
    IF r.mode = "anneal_only" THEN R(0)
    ELSE IF r.customProcessHoldMins # Undef THEN r.customProcessHoldMins
    ELSE processHoldDefault(r.mode)

processHoldMins(r) ==
    IF r.processHoldIndefinite \/ r.mode = "anneal_only" THEN R(0)
    ELSE IF r.customProcessHoldMins # Undef THEN r.customProcessHoldMins
    ELSE processHoldDefault(r.mode)

(***************************************************************************)
(* calculateSchedule: the physical rate / soak model                       *)
(***************************************************************************)
thicknessMm(r) ==
    IF r.units = "metric" THEN Mul(r.thickness, R(10)) ELSE Mul(r.thickness, Frac(254, 10))

effectiveThicknessMm(r) == Mul(thicknessMm(r), SHAPE_FACTORS(r.shape))

safeFactor(r) == CONSERVATIVENESS_FACTORS(r.conservativeness)

brandFactor(r) == GLASS_LIBRARY(r.glassType).brand_factor

\* the soak without the conservativeness factor
annealSoakHoursUnscaled(r) ==
    MathMax(Frac(1, 2), Mul(Frac(16, 100), effectiveThicknessMm(r)))

\* the soak without the minimum of half an hour
annealSoakHoursNoFloor(r) ==
    Mul(Mul(Frac(16, 100), effectiveThicknessMm(r)), safeFactor(r))

annealSoakHours(r) ==
    Mul(MathMax(Frac(1, 2), Mul(Frac(16, 100), effectiveThicknessMm(r))), safeFactor(r))

\* the rate with (25 / t) not squared
coolingRateCLinear(base, r) ==
    Div(Mul(Mul(base, Div(R(25), effectiveThicknessMm(r))), brandFactor(r)), safeFactor(r))

\* the rate multiplied by safeFactor instead of divided by it
coolingRateCTimesSafety(base, r) ==
    Mul(Mul(Mul(base, MathPow2(Div(R(25), effectiveThicknessMm(r)))), brandFactor(r)),
        safeFactor(r))

\* base * (25 / effective_thickness_mm)^2 * brand_factor / safeFactor, before the cap
coolingRateC(base, r) ==
    Div(Mul(Mul(base, MathPow2(Div(R(25), effectiveThicknessMm(r)))), brandFactor(r)),
        safeFactor(r))

\* no cap
capRateNone(x, cap) == x

\* if (x > cap) x = cap
capRate(x, cap) == IF Gt(x, cap) THEN cap ELSE x

r1_C(r) == capRate(coolingRateC(R(15), r), R(300))

rate1_F(r) == Div(Mul(r1_C(r), R(9)), R(5))

r2_C(r) == capRate(coolingRateC(R(27), r), R(400))

rate2_F(r) == Div(Mul(r2_C(r), R(9)), R(5))

unloadTemp == R(150)

\* the bands with 25 mm and 50 mm in the slower band
rampForThicknessFrom(eff) ==
    IF Ge(eff, R(50)) THEN R(100) ELSE IF Ge(eff, R(25)) THEN R(200) ELSE R(400)

\* 400, 200 above 25 mm, 100 above 50 mm
rampForThickness(eff) ==
    IF Gt(eff, R(50)) THEN R(100) ELSE IF Gt(eff, R(25)) THEN R(200) ELSE R(400)

rampToProcessRate(r) ==
    IF Truthy(r.customProcessRamp)
    THEN (IF r.units = "metric" THEN Div(Mul(r.customProcessRamp, R(9)), R(5))
          ELSE r.customProcessRamp)
    ELSE rampForThickness(effectiveThicknessMm(r))

\* mold drying in every mode
hasMoldDryAnyMode(r) == Truthy(r.moldDryHours) /\ Gt(r.moldDryHours, R(0))

hasMoldDry(r) ==
    r.mode = "cast" /\ Truthy(r.moldDryHours) /\ Gt(r.moldDryHours, R(0))

\* mdt
moldDryTempF(r) == IF Truthy(r.moldDryTemp) THEN toF(r.units, r.moldDryTemp) ELSE R(250)

\* the values calculateSchedule has resolved when it starts to sequence the segments
locals(r) ==
    [annealTemp |-> annealTemp(r), strainPoint |-> strainPoint(r),
     processTemp |-> processTemp(r), processHoldMins |-> processHoldMins(r),
     annealSoakHours |-> annealSoakHours(r), rate1_F |-> rate1_F(r), rate2_F |-> rate2_F(r),
     rampToProcessRate |-> rampToProcessRate(r), safeFactor |-> safeFactor(r),
     hasMoldDry |-> hasMoldDry(r), mdt |-> moldDryTempF(r)]

(***************************************************************************)
(* calculateSchedule: the segment sequencer.  A leg is one                 *)
(* "currentTime += hours; points.push(...)" of the code, temp in Fahrenheit *)
(***************************************************************************)
Point(t, temp, label, type) == [time |-> t, temp |-> temp, label |-> label, segment_type |-> type]

Leg(hours, temp, label, type) ==
    [hours |-> hours, temp |-> temp, label |-> label, segment_type |-> type]

moldDryLegs(r, v) ==
    IF v.hasMoldDry
    THEN <<Leg(Div(Sub(v.mdt, unloadTemp), v.rampToProcessRate), v.mdt, "Mold Dry Reach", "heat"),
           Leg(r.moldDryHours, v.mdt, "Mold Dry Hold", "process")>>
    ELSE <<>>

\* the process legs without the hold
processLegsWithoutHold(r, v, currentStartTemp) ==
    <<Leg(Div(Sub(v.processTemp, currentStartTemp), v.rampToProcessRate), v.processTemp,
          IF r.mode = "cast" THEN "Reach Cast" ELSE "Process Reach", "process"),
      Leg(Div(Sub(v.processTemp, v.annealTemp), R(1000)), v.annealTemp, "Cool to Anneal", "cool")>>

processLegs(r, v, currentStartTemp) ==
    <<Leg(Div(Sub(v.processTemp, currentStartTemp), v.rampToProcessRate), v.processTemp,
          IF r.mode = "cast" THEN "Reach Cast" ELSE "Process Reach", "process"),
      Leg(Div(v.processHoldMins, R(60)), v.processTemp,
          IF r.processHoldIndefinite THEN "Process Hold (Indefinite)" ELSE "Process Complete",
          "process_hold"),
      Leg(Div(Sub(v.processTemp, v.annealTemp), R(1000)), v.annealTemp, "Cool to Anneal", "cool")>>

firingLegs(r, v) ==
    IF r.mode # "anneal_only"
    THEN moldDryLegs(r, v) \o processLegs(r, v, IF v.hasMoldDry THEN v.mdt ELSE unloadTemp)
    ELSE <<Leg(Div(Sub(v.annealTemp, unloadTemp), v.rampToProcessRate), v.annealTemp,
               "Reach Soak", "heat")>>

\* both cooling legs at Rate 2
annealLegsOneRate(v) ==
    <<Leg(v.annealSoakHours, v.annealTemp, "Anneal Soak", "soak"),
      Leg(Div(Sub(v.annealTemp, v.strainPoint), v.rate2_F), v.strainPoint, "Strain Point", "cool"),
      Leg(Div(Sub(v.strainPoint, unloadTemp), v.rate2_F), unloadTemp, "Finished", "cool")>>

annealLegs(v) ==
    <<Leg(v.annealSoakHours, v.annealTemp, "Anneal Soak", "soak"),
      Leg(Div(Sub(v.annealTemp, v.strainPoint), v.rate1_F), v.strainPoint, "Strain Point", "cool"),
      Leg(Div(Sub(v.strainPoint, unloadTemp), v.rate2_F), unloadTemp, "Finished", "cool")>>

RECURSIVE pushLegs(_, _, _, _)
\* the point of leg k at time t, then the legs after it
pushPoint(units, legs, k, t) ==
    <<Point(t, toOutputTemp(units, legs[k].temp), legs[k].label, legs[k].segment_type)>>
    \o pushLegs(units, legs, k + 1, t)

\* the points of the legs k, k + 1, .. when currentTime has reached t
pushLegs(units, legs, k, currentTime) ==
    IF k > Len(legs) THEN <<>>
    ELSE pushPoint(units, legs, k, Add(currentTime, legs[k].hours))

pointsOf(r, v) ==
    <<Point(R(0), toOutputTemp(r.units, unloadTemp), "Start", "off")>>
    \o pushLegs(r.units, firingLegs(r, v) \o annealLegs(v), 1, R(0))

schedulePointsOf(r) == pointsOf(r, locals(r))

(***************************************************************************)
(* calculateSchedule: the instruction formatters.  A text is modelled by   *)
(* the values it prints: a time string hh:mm by the pair <<hh, mm>>, the   *)
(* Paragon script by its header units and its segments, the Digitry script *)
(* by its steps.                                                           *)
(***************************************************************************)
generateTimeStr(totalMins) ==
    <<MathFloor(Div(totalMins, R(60))), MathFloor(JsRem(totalMins, R(60)))>>

tempUnit(units) == IF units = "metric" THEN "°C" ELSE "°F"
rateUnit(units) == IF units = "metric" THEN "°C/hr" ELSE "°F/hr"

Segment(sc, name, ra, temp, hld, note) ==
    [seg |-> sc, name |-> name, ra |-> ra, temp |-> temp, hld |-> hld, note |-> note]

\* RA: Math.round(toRate(rate)), temperature: Math.round(toOutputTemp(f))
SegmentOf(units, sc, name, rate, f, hld, note) ==
    Segment(sc, name, MathRound(toRate(units, rate)), MathRound(toOutputTemp(units, f)), hld, note)

moldDrySegments(r, v) ==
    IF v.hasMoldDry
    THEN <<SegmentOf(r.units, 1, "Mold Dry", v.rampToProcessRate, v.mdt,
                     generateTimeStr(MathRound(Mul(r.moldDryHours, R(60)))), "")>>
    ELSE <<>>

\* "Cool to Anneal" at the rate of the crash-cool leg, 1000 F/hr
processSegmentsAtCrashRate(r, v, soakStr, sc) ==
    <<SegmentOf(r.units, sc + 1, "Process", v.rampToProcessRate, v.processTemp,
                IF r.processHoldIndefinite THEN <<"HOLD">>
                ELSE generateTimeStr(MathRound(v.processHoldMins)),
                IF r.processHoldIndefinite THEN " (INDEFINITE HOLD)" ELSE ""),
      SegmentOf(r.units, sc + 2, "Cool to Anneal", R(1000), v.annealTemp, soakStr, "")>>

\* segCount is sc here; the code runs sc = segCount++ twice before "Process";
\* the hold string "HOLD" is the one-element sequence <<"HOLD">>
processSegments(r, v, soakStr, sc) ==
    <<SegmentOf(r.units, sc + 1, "Process", v.rampToProcessRate, v.processTemp,
                IF r.processHoldIndefinite THEN <<"HOLD">>
                ELSE generateTimeStr(MathRound(v.processHoldMins)),
                IF r.processHoldIndefinite THEN " (INDEFINITE HOLD)" ELSE ""),
      Segment(sc + 2, "Cool to Anneal", R(9999),
              MathRound(toOutputTemp(r.units, v.annealTemp)), soakStr, "")>>

firingSegments(r, v, soakStr) ==
    IF r.mode # "anneal_only"
    THEN moldDrySegments(r, v) \o processSegments(r, v, soakStr, IF v.hasMoldDry THEN 2 ELSE 1)
    ELSE <<SegmentOf(r.units, 1, "Ramp to Soak", v.rampToProcessRate, v.annealTemp, soakStr, "")>>

coolingSegments(r, v, segCount) ==
    <<SegmentOf(r.units, segCount, "Anneal -> Strain", v.rate1_F, v.strainPoint,
                <<R(0), R(0)>>, ""),
      SegmentOf(r.units, segCount + 1, "Strain -> Cool", v.rate2_F, unloadTemp,
                <<R(0), R(0)>>, "")>>

segmentsAfter(r, v, firing) == firing \o coolingSegments(r, v, firing[Len(firing)].seg + 1)

paragonOf(r, v) ==
    [tempUnit |-> tempUnit(r.units), rateUnit |-> rateUnit(r.units), shape |-> r.shape,
     safety |-> v.safeFactor,
     segments |-> segmentsAfter(r, v,
                     firingSegments(r, v,
                         generateTimeStr(MathRound(Mul(v.annealSoakHours, R(60))))))]

\* p.label?.includes("Indefinite")
labelIncludesIndefinite(label) == label = "Process Hold (Indefinite)"

digitryOf(r, v, points) ==
    [tempUnit |-> tempUnit(r.units), shape |-> r.shape, safety |-> v.safeFactor,
     steps |-> [k \in 1 .. Len(points) - 1 |->
                  [step |-> k, label |-> points[k + 1].label,
                   temp |-> MathRound(points[k + 1].temp),
                   time |-> generateTimeStr(MathRound(Mul(points[k + 1].time, R(60)))),
                   hold |-> labelIncludesIndefinite(points[k + 1].label)]]]

ScheduleResult(r, v, points) ==
    [points |-> points, paragon_instructions |-> paragonOf(r, v),
     digitry_instructions |-> digitryOf(r, v, points)]

scheduleFrom(r, v) == ScheduleResult(r, v, pointsOf(r, v))

calculateSchedule(r) == scheduleFrom(r, locals(r))

(***************************************************************************)
(* The chart (AnnealingChart).  A trace is the record pushed to traces;     *)
(* its field indices is the argument of pushTrace the marker opacities are  *)
(* computed from, the positions in points (counted from 0) of the points    *)
(* the trace draws.                                                         *)
(***************************************************************************)
SegmentTypes == {"heat", "soak", "cool", "off", "process", "process_hold"}

getColor(type) ==
    IF type = "cool" THEN "#3b82f6"
    ELSE IF type = "process_hold" THEN "#eab308"
    ELSE "#ef4444"

getLabel(type) ==
    IF type = "cool" THEN "Cooling"
    ELSE IF type = "process_hold" THEN "Indefinite Hold"
    ELSE "Heating / Soaking"

\* points[idx] of the code
at(points, idx) == points[idx + 1]

markerOpacities(points, indices, name, legendsShown) ==
    [i \in 1 .. Len(indices) |->
        IF name = "Indefinite Hold" THEN 1
        ELSE IF i = 1 /\ name \notin legendsShown THEN 1
        ELSE IF at(points, indices[i]).segment_type = "process_hold" THEN 0
        ELSE 1]

\* cur holds currentX, currentY, currentIndices, currentColor, currentName, traces
\* and legendsShown
pushTrace(points, cur) ==
    [cur EXCEPT
        !.traces = Append(@,
            [x |-> cur.x, y |-> cur.y, indices |-> cur.indices,
             mode |-> IF cur.name = "Indefinite Hold" THEN "markers" ELSE "lines+markers",
             name |-> cur.name, color |-> cur.color,
             opacity |-> markerOpacities(points, cur.indices, cur.name, cur.legendsShown),
             showlegend |-> cur.name \notin cur.legendsShown, legendgroup |-> cur.name]),
        !.legendsShown = @ \cup {cur.name}]

continueTrace(cur, nextPoint, i) ==
    [cur EXCEPT !.x = Append(@, nextPoint.time), !.y = Append(@, nextPoint.temp),
                !.indices = Append(@, i + 1)]

\* a new trace that starts at nextPoint and is not joined to the trace before it
startTraceAtNext(pushed, point, nextPoint, i) ==
    [pushed EXCEPT !.color = getColor(nextPoint.segment_type),
                   !.name = getLabel(nextPoint.segment_type),
                   !.x = <<nextPoint.time>>,
                   !.y = <<nextPoint.temp>>,
                   !.indices = <<i + 1>>]

startTrace(pushed, point, nextPoint, i) ==
    [pushed EXCEPT !.color = getColor(nextPoint.segment_type),
                   !.name = getLabel(nextPoint.segment_type),
                   !.x = <<point.time, nextPoint.time>>,
                   !.y = <<point.temp, nextPoint.temp>>,
                   !.indices = <<i, i + 1>>]

\* one iteration of the loop over i = 0 .. points.length - 2
traceStep(points, cur, i) ==
    IF getLabel(at(points, i + 1).segment_type) = cur.name
    THEN continueTrace(cur, at(points, i + 1), i)
    ELSE startTrace(pushTrace(points, cur), at(points, i), at(points, i + 1), i)

RECURSIVE traceLoop(_, _, _)
traceLoop(points, cur, i) ==
    IF i < Len(points) - 1 THEN traceLoop(points, traceStep(points, cur, i), i + 1)
    ELSE cur

\* the state of the loop before its first iteration
firstTrace(points, currentType) ==
    [x |-> <<points[1].time>>, y |-> <<points[1].temp>>, indices |-> <<0>>,
     color |-> getColor(currentType), name |-> getLabel(currentType),
     traces |-> <<>>, legendsShown |-> {}]

\* traces before the sort
buildTraces(points) ==
    IF Len(points) > 0
    THEN pushTrace(points,
             traceLoop(points,
                 firstTrace(points,
                     IF Len(points) > 1 THEN at(points, 1).segment_type ELSE "off"),
                 0)).traces
    ELSE <<>>

\* a comparator under which the indefinite hold sorts first
compareTracesHoldFirst(a, b) ==
    IF a.name = "Indefinite Hold" THEN -1
    ELSE IF b.name = "Indefinite Hold" THEN 1
    ELSE 0

\* the comparator of traces.sort.  Two traces named Indefinite Hold compare as
\* greater in both orders, so the comparator is not consistent and the order
\* Array.prototype.sort leaves is implementation-defined: it is the order one of
\* the sort procedures below leaves
compareTraces(a, b) ==
    IF a.name = "Indefinite Hold" THEN 1
    ELSE IF b.name = "Indefinite Hold" THEN -1
    ELSE 0

insertAt(sorted, e, k) == SubSeq(sorted, 1, k) \o <<e>> \o SubSeq(sorted, k + 1, Len(sorted))

\* insertion from the right: e moves left past every element that compares greater
RECURSIVE linearPosition(_, _, _)
linearPosition(sorted, e, k) ==
    IF k >= 1 /\ compareTraces(sorted[k], e) > 0 THEN linearPosition(sorted, e, k - 1)
    ELSE k

\* binary insertion: the position of e found by bisection of left .. right
RECURSIVE binaryPosition(_, _, _, _)
binaryPosition(sorted, e, left, right) ==
    IF left < right
    THEN IF compareTraces(e, sorted[left + (right - left) \div 2 + 1]) < 0
         THEN binaryPosition(sorted, e, left, left + (right - left) \div 2)
         ELSE binaryPosition(sorted, e, left + (right - left) \div 2 + 1, right)
    ELSE left

positionBy(procedure, sorted, e) ==
    IF procedure = "linear" THEN linearPosition(sorted, e, Len(sorted))
    ELSE binaryPosition(sorted, e, 0, Len(sorted))

RECURSIVE insertionSort(_, _, _, _)
insertionSort(procedure, traces, sorted, i) ==
    IF i > Len(traces) THEN sorted
    ELSE insertionSort(procedure, traces,
                       insertAt(sorted, traces[i], positionBy(procedure, sorted, traces[i])),
                       i + 1)

SortProcedures == {"linear", "binary"}

\* the orders traces.sort can leave
sortedTraces(traces) == {insertionSort(procedure, traces, <<>>, 1) : procedure \in SortProcedures}

yaxisTitle(units) == IF units = "metric" THEN "Temperature (°C)" ELSE "Temperature (°F)"

\* the charts the component can draw for the props points and units
AnnealingChart(points, units) ==
    {[data |-> traces, yaxis |-> yaxisTitle(units)] : traces \in sortedTraces(buildTraces(points))}

(***************************************************************************)
(* The form (App.tsx).  A text field holds Undef when it is empty and      *)
(* otherwise the number its text denotes.                                  *)
(***************************************************************************)
VARIABLES
    form,     \* the useState cells of the form, units included
    result,   \* the stored ScheduleResult, NoResult for null
    call,     \* the arguments of the calculateSchedule call of the last step, or NoCall
    alert,    \* the message the last step alerted, "" for none
    op,       \* the handler the last step ran
    edits,    \* the number of field edits so far
    chart     \* the chart on the page, NoChart while there is no result

vars == <<form, result, call, alert, op, edits, chart>>

NoResult == [none |-> "result"]
NoCall == [none |-> "call"]
NoChart == [none |-> "chart"]

\* {result && <AnnealingChart points={result.points} units={units} />}
rendered(res, units) ==
    IF res = NoResult THEN {NoChart} ELSE AnnealingChart(res.points, units)

\* at most MaxEdits field edits in a behaviour
MaxEdits == 1

parseFloat(str) == IF str = Undef THEN NaN ELSE str

\* Number.prototype.toFixed(digits): the nearest multiple of 10^-digits, halves away from 0
toFixed(x, digits) ==
    LET scale == R(10 ^ digits)
        mag == IF x[1] < 0 THEN Neg(x) ELSE x
        n == MathFloor(Add(Mul(mag, scale), Frac(1, 2)))
    IN  IF ~IsFinite(x) THEN x
        ELSE IF x[1] < 0 THEN Neg(Div(n, scale)) ELSE Div(n, scale)

Request(g, th, m, u, sh, c, ca, cs, cpt, cph, cpr, mdh, mdt, ind) ==
    [glassType |-> g, thickness |-> th, mode |-> m, units |-> u, shape |-> sh,
     conservativeness |-> c, customAnneal |-> ca, customStrain |-> cs,
     customProcessTemp |-> cpt, customProcessHoldMins |-> cph, customProcessRamp |-> cpr,
     moldDryHours |-> mdh, moldDryTemp |-> mdt, processHoldIndefinite |-> ind]

\* the arguments both handlers pass to calculateSchedule, built from the field values f
\* for the parsed thickness thickVal and the units u
buildRequest(f, thickVal, u) ==
    LET proc == f.scheduleMode # "anneal_only"
        dry == proc /\ f.scheduleMode = "cast" /\ f.moldDryHours # Undef
        opt(cond, str) == IF cond /\ str # Undef THEN parseFloat(str) ELSE Undef
    IN  Request(f.glassType, thickVal, f.scheduleMode, u, f.shape, f.conservativeness,
                IF f.glassType = "Custom" THEN parseFloat(f.customAnneal)
                ELSE opt(TRUE, f.customAnneal),
                IF f.glassType = "Custom" THEN parseFloat(f.customStrain)
                ELSE opt(TRUE, f.customStrain),
                opt(proc, f.processTemp), opt(proc, f.processHold), opt(proc, f.processRamp),
                opt(dry, f.moldDryHours), opt(dry, f.moldDryTemp), FALSE)

convertTempField(newUnits, valStr) ==
    IF valStr = Undef THEN Undef
    ELSE IF newUnits = "metric" THEN MathRound(Div(Mul(Sub(valStr, R(32)), R(5)), R(9)))
    ELSE MathRound(Add(Div(Mul(valStr, R(9)), R(5)), R(32)))

convertRateField(newUnits, valStr) ==
    IF valStr = Undef THEN Undef
    ELSE IF newUnits = "metric" THEN MathRound(Div(Mul(valStr, R(5)), R(9)))
    ELSE MathRound(Div(Mul(valStr, R(9)), R(5)))

convertThickness(newUnits, thickness) ==
    IF IsNaN(parseFloat(thickness)) THEN thickness
    ELSE IF newUnits = "metric" THEN toFixed(Mul(thickness, Frac(254, 100)), 2)
    ELSE toFixed(Div(thickness, Frac(254, 100)), 3)

\* the fields of the form f after toggleUnits has converted them to newUnits
convertedForm(f, newUnits) ==
    [f EXCEPT !.units = newUnits,
              !.thickness = convertThickness(newUnits, f.thickness),
              !.customAnneal = convertTempField(newUnits, f.customAnneal),
              !.customStrain = convertTempField(newUnits, f.customStrain),
              !.processTemp = convertTempField(newUnits, f.processTemp),
              !.processRamp = convertRateField(newUnits, f.processRamp),
              !.moldDryTemp = convertTempField(newUnits, f.moldDryTemp)]

toggleUnits ==
    LET newUnits == IF form.units = "imperial" THEN "metric" ELSE "imperial"
        newForm == convertedForm(form, newUnits)
        thickVal == parseFloat(newForm.thickness)
        recompute == result # NoResult /\ ~IsNaN(thickVal)
        req == buildRequest(newForm, thickVal, newUnits)
    IN  /\ form' = newForm
        /\ call' = IF recompute THEN req ELSE NoCall
        /\ result' = IF recompute THEN calculateSchedule(req) ELSE result
        /\ chart' \in rendered(result', newUnits)
        /\ alert' = ""
        /\ op' = "toggleUnits"
        /\ UNCHANGED edits

handleCalculate ==
    LET thickVal == parseFloat(form.thickness)
        req == buildRequest(form, thickVal, form.units)
        msg == IF IsNaN(thickVal) THEN "Please enter a valid thickness."
               ELSE IF form.glassType = "Custom"
                       /\ (IsNaN(req.customAnneal) \/ IsNaN(req.customStrain))
                    THEN "Please enter valid Custom Temperatures."
               ELSE ""
    IN  /\ alert' = msg
        /\ call' = IF msg = "" THEN req ELSE NoCall
        /\ result' = IF msg = "" THEN calculateSchedule(req) ELSE result
        /\ chart' \in IF msg = "" THEN rendered(result', form.units) ELSE {chart}
        /\ op' = "handleCalculate"
        /\ UNCHANGED <<form, edits>>

\* the onChange handlers: what the user can select or type into each field
GlassInputs == GlassTypes
ModeInputs == ScheduleModes
ThicknessInputs == {Undef, R(0), R(-1), Frac(1, 4), R(1)}
CustomAnnealInputs == {Undef, R(0), R(510)}
CustomStrainInputs == {Undef, R(450)}
ProcessTempInputs == {Undef, R(800)}
ProcessHoldInputs == {Undef, R(0), R(45)}
ProcessRampInputs == {Undef, R(250)}
MoldDryHoursInputs == {Undef, R(2)}
MoldDryTempInputs == {Undef, R(120)}

edit(name, newForm) ==
    /\ edits < MaxEdits
    /\ newForm # form
    /\ form' = newForm
    /\ edits' = edits + 1
    /\ call' = NoCall
    /\ alert' = ""
    /\ op' = name
    /\ UNCHANGED <<result, chart>>

setGlassType == \E v \in GlassInputs : edit("setGlassType", [form EXCEPT !.glassType = v])
setScheduleMode == \E v \in ModeInputs : edit("setScheduleMode", [form EXCEPT !.scheduleMode = v])
setThickness == \E v \in ThicknessInputs : edit("setThickness", [form EXCEPT !.thickness = v])
setShape == \E v \in ShapeFactors : edit("setShape", [form EXCEPT !.shape = v])
setConservativeness ==
    \E v \in ConservativenessLevels :
        edit("setConservativeness", [form EXCEPT !.conservativeness = v])
setCustomAnneal ==
    \E v \in CustomAnnealInputs : edit("setCustomAnneal", [form EXCEPT !.customAnneal = v])
setCustomStrain ==
    \E v \in CustomStrainInputs : edit("setCustomStrain", [form EXCEPT !.customStrain = v])
setProcessTemp ==
    \E v \in ProcessTempInputs : edit("setProcessTemp", [form EXCEPT !.processTemp = v])
setProcessHold ==
    \E v \in ProcessHoldInputs : edit("setProcessHold", [form EXCEPT !.processHold = v])
setProcessRamp ==
    \E v \in ProcessRampInputs : edit("setProcessRamp", [form EXCEPT !.processRamp = v])
setMoldDryHours ==
    \E v \in MoldDryHoursInputs : edit("setMoldDryHours", [form EXCEPT !.moldDryHours = v])
setMoldDryTemp ==
    \E v \in MoldDryTempInputs : edit("setMoldDryTemp", [form EXCEPT !.moldDryTemp = v])

Init ==
    /\ form = [glassType |-> "Bullseye (COE 90)", scheduleMode |-> "anneal_only",
               thickness |-> Frac(1, 4), units |-> "imperial", shape |-> "slab",
               conservativeness |-> "fast", customAnneal |-> Undef, customStrain |-> Undef,
               processTemp |-> Undef, processHold |-> Undef, processRamp |-> Undef,
               moldDryHours |-> Undef, moldDryTemp |-> Undef]
    /\ result = NoResult
    /\ call = NoCall
    /\ alert = ""
    /\ op = "init"
    /\ edits = 0
    /\ chart = NoChart

Next ==
    \/ setGlassType \/ setScheduleMode \/ setThickness \/ setShape \/ setConservativeness
    \/ setCustomAnneal \/ setCustomStrain \/ setProcessTemp \/ setProcessHold
    \/ setProcessRamp \/ setMoldDryHours \/ setMoldDryTemp
    \/ toggleUnits \/ handleCalculate

\* the form: any sequence of edits, unit toggles and Generate Schedule clicks
Spec == Init /\ [][Next]_vars

(***************************************************************************)
(* The unit round trip: a form filled in in imperial units, on which only   *)
(* Generate Schedule and the unit toggle are used.                          *)
(***************************************************************************)
RoundTripThicknesses == {Frac(1, 4), Frac(3, 10), R(1)}
RoundTripAnneals == {Undef, R(960)}
RoundTripProcessTemps == {Undef, R(1350)}
RoundTripRamps == {Undef, R(10), R(250)}

RoundTripForms ==
    {[glassType |-> "Bullseye (COE 90)", scheduleMode |-> m, thickness |-> th,
      units |-> "imperial", shape |-> "slab", conservativeness |-> c,
      customAnneal |-> ca, customStrain |-> Undef, processTemp |-> pt,
      processHold |-> Undef, processRamp |-> pr, moldDryHours |-> Undef,
      moldDryTemp |-> Undef] :
        m \in {"anneal_only", "tack_fuse"}, th \in RoundTripThicknesses,
        c \in {"fast", "cautious"}, ca \in RoundTripAnneals, pt \in RoundTripProcessTemps,
        pr \in RoundTripRamps}

InitRoundTrip ==
    /\ form \in RoundTripForms
    /\ result = NoResult
    /\ call = NoCall
    /\ alert = ""
    /\ op = "init"
    /\ edits = 0
    /\ chart = NoChart

NextRoundTrip == handleCalculate \/ toggleUnits

SpecRoundTrip == InitRoundTrip /\ [][NextRoundTrip]_vars

(***************************************************************************)
(* The engine on its own: calculateSchedule applied to one request of a     *)
(* bounded set of argument lists.                                           *)
(***************************************************************************)
\* thicknesses 1/4, 1/2, .. 2^MaxThicknessExp / 4, in inches or centimetres
MaxThicknessExp == 3
\* at most MaxOverrides optional arguments are passed together
MaxOverrides == 2

Thicknesses == {Frac(2 ^ k, 4) : k \in 0 .. MaxThicknessExp}

OverrideFields ==
    {"customAnneal", "customStrain", "customProcessTemp", "customProcessHoldMins",
     "customProcessRamp", "moldDryHours", "moldDryTemp"}

OverrideValues(f) ==
    CASE f = "customAnneal" -> {NaN, R(0), R(510)}
      [] f = "customStrain" -> {NaN, R(0), R(450)}
      [] f = "customProcessTemp" -> {R(0), R(800)}
      [] f = "customProcessHoldMins" -> {R(0), R(45)}
      [] f = "customProcessRamp" -> {R(0), R(250)}
      [] f = "moldDryHours" -> {R(0), R(2)}
      [] f = "moldDryTemp" -> {R(0), R(120)}

\* the choices of at most MaxOverrides optional arguments and of their values
Overrides ==
    UNION {{p \in [F -> UNION {OverrideValues(f) : f \in F}] :
               \A f \in F : p[f] \in OverrideValues(f)} :
           F \in {G \in SUBSET OverrideFields : Cardinality(G) <= MaxOverrides}}

passed(p, f) == IF f \in DOMAIN p THEN p[f] ELSE Undef

RequestWith(g, th, m, u, sh, c, p, ind) ==
    Request(g, th, m, u, sh, c, passed(p, "customAnneal"), passed(p, "customStrain"),
            passed(p, "customProcessTemp"), passed(p, "customProcessHoldMins"),
            passed(p, "customProcessRamp"), passed(p, "moldDryHours"),
            passed(p, "moldDryTemp"), ind)

NoOverride == [f \in {} |-> Undef]

\* every glass, unit system, shape, conservativeness and thickness, annealing only
GeometryRequests ==
    {RequestWith(g, th, "anneal_only", u, sh, c, NoOverride, FALSE) :
        g \in GlassTypes, th \in Thicknesses, u \in UnitSystems, sh \in ShapeFactors,
        c \in ConservativenessLevels}

\* every schedule mode of every glass, the process hold at its default or overridden,
\* timed or indefinite
ModeRequests ==
    {RequestWith(g, Frac(1, 4), m, u, "slab", "fast", p, ind) :
        g \in GlassTypes, m \in ScheduleModes, u \in UnitSystems,
        p \in {NoOverride, [f \in {"customProcessHoldMins"} |-> R(45)]}, ind \in BOOLEAN}

\* the optional arguments, for a library glass and for Custom, with and without mold drying
OverrideRequests ==
    {RequestWith(g, Frac(1, 4), m, u, "slab", "fast", p, FALSE) :
        g \in {"Bullseye (COE 90)", "Custom"}, m \in {"tack_fuse", "cast"},
        u \in UnitSystems, p \in Overrides}

\* thicknesses in cm at and above the limits of the ramp bands: 25 mm, 50 mm, 60 mm
BandThicknesses == {Frac(5, 2), R(5), R(6)}

\* a ramp to soak and a cast with and without mold drying at these thicknesses
BandRequests ==
    {RequestWith("Bullseye (COE 90)", th, m, "metric", "slab", "fast", p, FALSE) :
        th \in BandThicknesses, m \in {"anneal_only", "cast"},
        p \in {NoOverride, [f \in {"moldDryHours"} |-> R(2)]}}

\* Base^k as a natural
BasePower(k) == [i \in 1 .. k + 1 |-> IF i = k + 1 THEN 1 ELSE 0]

\* thicknesses near the ends of the range of positive doubles: 10^-320 and 10^308
ExtremeThicknesses == {<<1, <<1>>, BasePower(80)>>, <<1, BasePower(77), <<1>>>>}

ExtremeRequests ==
    {RequestWith("Bullseye (COE 90)", th, m, u, sh, c, NoOverride, FALSE) :
        th \in ExtremeThicknesses, m \in {"anneal_only", "tack_fuse"}, u \in UnitSystems,
        sh \in {"slab", "hollow_deep"}, c \in {"fast", "cautious"}}

Requests == GeometryRequests \cup ModeRequests \cup OverrideRequests \cup BandRequests

\* the form untouched and the arguments of the call to come chosen
InitEngine ==
    /\ form = [glassType |-> "Bullseye (COE 90)", scheduleMode |-> "anneal_only",
               thickness |-> Frac(1, 4), units |-> "imperial", shape |-> "slab",
               conservativeness |-> "fast", customAnneal |-> Undef, customStrain |-> Undef,
               processTemp |-> Undef, processHold |-> Undef, processRamp |-> Undef,
               moldDryHours |-> Undef, moldDryTemp |-> Undef]
    /\ result = NoResult
    /\ call \in Requests
    /\ alert = ""
    /\ op = "init"
    /\ edits = 0
    /\ chart = NoChart

\* the call of calculateSchedule with the chosen arguments
Invoke ==
    /\ op = "init"
    /\ result' = calculateSchedule(call)
    /\ op' = "calculateSchedule"
    /\ UNCHANGED <<form, call, alert, edits, chart>>

NextEngine == Invoke

SpecEngine == InitEngine /\ [][NextEngine]_vars

\* the engine over the whole range of thicknesses: the requests above and those at the
\* ends of the range of doubles
InitRange ==
    /\ form = [glassType |-> "Bullseye (COE 90)", scheduleMode |-> "anneal_only",
               thickness |-> Frac(1, 4), units |-> "imperial", shape |-> "slab",
               conservativeness |-> "fast", customAnneal |-> Undef, customStrain |-> Undef,
               processTemp |-> Undef, processHold |-> Undef, processRamp |-> Undef,
               moldDryHours |-> Undef, moldDryTemp |-> Undef]
    /\ result = NoResult
    /\ call \in Requests \cup ExtremeRequests
    /\ alert = ""
    /\ op = "init"
    /\ edits = 0
    /\ chart = NoChart

SpecRange == InitRange /\ [][NextEngine]_vars

(***************************************************************************)
(* The chart on its own: AnnealingChart drawn for one waypoint sequence of  *)
(* a bounded set, every segment type at every position.                     *)
(***************************************************************************)
\* waypoint sequences of at most MaxPoints points
MaxPoints == 5

\* the waypoints of the given segment types, an hour apart, at one temperature
waypointsOf(types) ==
    [i \in 1 .. Len(types) |-> Point(R(i - 1), unloadTemp, "", types[i])]

InitChart ==
    /\ form = [glassType |-> "Bullseye (COE 90)", scheduleMode |-> "anneal_only",
               thickness |-> Frac(1, 4), units |-> "imperial", shape |-> "slab",
               conservativeness |-> "fast", customAnneal |-> Undef, customStrain |-> Undef,
               processTemp |-> Undef, processHold |-> Undef, processRamp |-> Undef,
               moldDryHours |-> Undef, moldDryTemp |-> Undef]
    /\ \E n \in 0 .. MaxPoints :
          \E types \in [1 .. n -> SegmentTypes] : result = [points |-> waypointsOf(types)]
    /\ call = NoCall
    /\ alert = ""
    /\ op = "init"
    /\ edits = 0
    /\ chart = NoChart

\* the component drawn for the props points and units
RenderChart ==
    /\ op = "init"
    /\ chart' \in AnnealingChart(result.points, form.units)
    /\ op' = "AnnealingChart"
    /\ UNCHANGED <<form, result, call, alert, edits>>

NextChart == RenderChart

SpecChart == InitChart /\ [][NextChart]_vars

(***************************************************************************)
(* Properties                                                              *)
(***************************************************************************)
\* the last step was a call of calculateSchedule with arguments call, returning result
Called == op = "calculateSchedule"

\* an optional argument that is absent or a positive finite number
AbsentOrPositive(x) == x = Undef \/ (IsFinite(x) /\ Gt(x, Zero))

\* a positive finite thickness and only positive overrides
ValidRequest(r) ==
    /\ IsFinite(r.thickness) /\ Gt(r.thickness, Zero)
    /\ AbsentOrPositive(r.customAnneal) /\ AbsentOrPositive(r.customStrain)
    /\ AbsentOrPositive(r.customProcessTemp) /\ AbsentOrPositive(r.customProcessHoldMins)
    /\ AbsentOrPositive(r.customProcessRamp) /\ AbsentOrPositive(r.moldDryHours)
    /\ AbsentOrPositive(r.moldDryTemp)

\* the waypoint of a result with the given label
Labelled(res, label) ==
    res.points[CHOOSE i \in 1 .. Len(res.points) : res.points[i].label = label]

\* C1: for every valid request the waypoints start at time 0 and their times never
\* decrease from one waypoint to the next
C1_TimesNonDecreasing ==
    (Called /\ ValidRequest(call)) =>
        /\ IsZero(result.points[1].time)
        /\ \A i \in 1 .. Len(result.points) - 1 :
              Le(result.points[i].time, result.points[i + 1].time)

NotSupplied(x) == x = Undef \/ IsNaN(x)

\* C3: Custom glass without anneal and strain override anneals at 900 F with strain
\* point 700 F in every mode, and every waypoint time and temperature is a number
C3_CustomFallback ==
    (Called /\ call.glassType = "Custom"
        /\ NotSupplied(call.customAnneal) /\ NotSupplied(call.customStrain)) =>
        /\ Eq(annealTemp(call), R(900)) /\ Eq(strainPoint(call), R(700))
        /\ Eq(Labelled(result, "Anneal Soak").temp, toOutputTemp(call.units, R(900)))
        /\ Eq(Labelled(result, "Strain Point").temp, toOutputTemp(call.units, R(700)))
        /\ \A i \in 1 .. Len(result.points) :
              IsFinite(result.points[i].time) /\ IsFinite(result.points[i].temp)

C3_Witness ==
    /\ Called /\ call.glassType = "Custom" /\ call.mode = "tack_fuse"
    /\ IsNaN(call.customAnneal) /\ call.customStrain = Undef
    /\ Eq(Labelled(result, "Anneal Soak").temp, R(900))
    /\ Eq(Labelled(result, "Cool to Anneal").temp, R(900))

\* the thickness field parses to a number that is finite and positive
ThicknessAccepted(f) == IsFinite(parseFloat(f.thickness)) /\ Gt(parseFloat(f.thickness), Zero)

\* C4: with a thickness that is not a positive finite number handleCalculate does not
\* call calculateSchedule and leaves the stored result as it was
C4_BadThicknessRejected ==
    [][(op' = "handleCalculate" /\ ~ThicknessAccepted(form)) =>
           (call' = NoCall /\ result' = result)]_vars

\* an argument that is a number
Numeric(x) == x # Undef /\ ~IsNaN(x)

\* C5: the form never calls calculateSchedule for Custom glass with a missing or
\* non-numeric anneal or strain override
C5_CustomNeverCalledWithoutTemps ==
    (call # NoCall /\ call.glassType = "Custom") =>
        (Numeric(call.customAnneal) /\ Numeric(call.customStrain))

\* C6: every numeric override wins: the resolved anneal, strain, process and mold-dry
\* temperature and the ramp rate are the override in Fahrenheit, zero included, and
\* the process hold is the overriding number of minutes
C6_OverrideAlwaysWins ==
    Called =>
        /\ Numeric(call.customAnneal) =>
              Eq(annealTemp(call), toF(call.units, call.customAnneal))
        /\ Numeric(call.customStrain) =>
              Eq(strainPoint(call), toF(call.units, call.customStrain))
        /\ (Numeric(call.customProcessTemp) /\ call.mode # "anneal_only") =>
              Eq(processTemp(call), toF(call.units, call.customProcessTemp))
        /\ (Numeric(call.moldDryTemp) /\ hasMoldDry(call)) =>
              Eq(moldDryTempF(call), toF(call.units, call.moldDryTemp))
        /\ Numeric(call.customProcessRamp) =>
              Eq(rampToProcessRate(call),
                 IF call.units = "metric" THEN Div(Mul(call.customProcessRamp, R(9)), R(5))
                 ELSE call.customProcessRamp)
        /\ (Numeric(call.customProcessHoldMins) /\ call.mode # "anneal_only"
               /\ ~call.processHoldIndefinite) =>
              Eq(processHoldMins(call), call.customProcessHoldMins)

\* Bullseye (COE 90), 0.25 in, anneal only, imperial, everything else at its default
DefaultRequest ==
    Request("Bullseye (COE 90)", Frac(1, 4), "anneal_only", "imperial", "slab", "fast",
            Undef, Undef, Undef, Undef, Undef, Undef, Undef, FALSE)

\* the hours between reaching the anneal temperature and the end of the anneal soak
SoakHoursIn(res) ==
    Sub(Labelled(res, "Anneal Soak").time, Labelled(res, "Reach Soak").time)

\* the segment of the Paragon script with the given name
SegmentNamed(res, name) ==
    LET segs == res.paragon_instructions.segments
    IN  segs[CHOOSE i \in 1 .. Len(segs) : segs[i].name = name]

\* C7 as amended: for the default request the anneal soak is 0.762 h, Rate 1 is
\* 540 F/hr and Rate 2 is 720 F/hr, both at their caps of 300 and 400 C/hr, and the
\* last waypoint is at the unload temperature
C7_DefaultSchedule ==
    (Called /\ call = DefaultRequest) =>
        /\ Eq(SoakHoursIn(result), Frac(762, 1000))
        /\ Eq(rate1_F(call), R(540)) /\ Eq(rate2_F(call), R(720))
        /\ Eq(SegmentNamed(result, "Anneal -> Strain").ra, R(540))
        /\ Eq(SegmentNamed(result, "Strain -> Cool").ra, R(720))
        /\ result.points[Len(result.points)].label = "Finished"
        /\ Eq(result.points[Len(result.points)].temp, unloadTemp)

C7_Witness ==
    /\ Called /\ call = DefaultRequest
    /\ Gt(coolingRateC(R(15), call), R(300))
    /\ Eq(SegmentNamed(result, "Ramp to Soak").hld[2], R(46))

\* C7 as stated: for the default request the anneal soak is about 0.5 h (within 0.05 h),
\* Rate 1 is 300 F/hr and Rate 2 is 400 F/hr, and the last waypoint is at the unload
\* temperature
C7_Original ==
    (Called /\ call = DefaultRequest) =>
        /\ Le(Frac(45, 100), SoakHoursIn(result)) /\ Le(SoakHoursIn(result), Frac(55, 100))
        /\ Eq(rate1_F(call), R(300)) /\ Eq(rate2_F(call), R(400))
        /\ Eq(result.points[Len(result.points)].temp, unloadTemp)

\* the request r with its thickness doubled
Doubled(r) == [r EXCEPT !.thickness = Mul(R(2), @)]

\* a request of the glass and conservativeness of r whose effective thickness is 25 mm
At25mm(r) == [r EXCEPT !.units = "metric", !.thickness = Frac(25, 10), !.shape = "slab"]

\* C8: before the cap each rate is its value at 25 mm times (25 / t)^2, t the effective
\* thickness, so that doubling the thickness, or going from slab to hollow_deep,
\* divides the rate by exactly 4
C8_InverseSquare ==
    Called =>
        \A base \in {R(15), R(27)} :
            /\ Eq(coolingRateC(base, call),
                  Mul(coolingRateC(base, At25mm(call)),
                      MathPow2(Div(R(25), effectiveThicknessMm(call)))))
            /\ Eq(Mul(R(4), coolingRateC(base, Doubled(call))), coolingRateC(base, call))
            /\ call.shape = "slab" =>
                  Eq(Mul(R(4), coolingRateC(base, [call EXCEPT !.shape = "hollow_deep"])),
                     coolingRateC(base, call))

C8_Witness ==
    /\ Called /\ call.shape = "slab" /\ call.glassType = "Simax / Pyrex (Borosilicate COE 33)"
    /\ Lt(coolingRateC(R(27), call), R(400))
    /\ Eq(r2_C(call), Mul(R(4), r2_C([call EXCEPT !.shape = "hollow_deep"])))

\* the request r at another conservativeness level
AtLevel(r, c) == [r EXCEPT !.conservativeness = c]

\* hi > lo, or both at the cap
StrictUnlessCapped(hi, lo, cap) == Gt(hi, lo) \/ (Eq(hi, cap) /\ Eq(lo, cap))

\* C9 as amended: for fixed other inputs the anneal soak satisfies cautious >= standard
\* >= fast, and Rate 1 and Rate 2 as used in the schedule never increase in the order
\* fast, standard, cautious and strictly decrease between two levels unless both
\* are at the cap (540 and 720 F/hr)
C9_ConservativenessMonotone ==
    Called =>
        /\ Ge(annealSoakHours(AtLevel(call, "cautious")),
              annealSoakHours(AtLevel(call, "standard")))
        /\ Ge(annealSoakHours(AtLevel(call, "standard")),
              annealSoakHours(AtLevel(call, "fast")))
        /\ StrictUnlessCapped(rate1_F(AtLevel(call, "fast")),
                              rate1_F(AtLevel(call, "standard")), R(540))
        /\ StrictUnlessCapped(rate1_F(AtLevel(call, "standard")),
                              rate1_F(AtLevel(call, "cautious")), R(540))
        /\ StrictUnlessCapped(rate2_F(AtLevel(call, "fast")),
                              rate2_F(AtLevel(call, "standard")), R(720))
        /\ StrictUnlessCapped(rate2_F(AtLevel(call, "standard")),
                              rate2_F(AtLevel(call, "cautious")), R(720))

C9_Witness ==
    /\ Called /\ call.conservativeness = "standard"
    /\ Eq(rate2_F(call), R(720)) /\ Eq(rate2_F(AtLevel(call, "fast")), R(720))
    /\ Gt(rate1_F(AtLevel(call, "fast")), rate1_F(call))
    /\ Gt(rate2_F(call), rate2_F(AtLevel(call, "cautious")))

\* C9 as stated: the anneal soak satisfies cautious >= standard >= fast and Rate 1 and
\* Rate 2 as used in the schedule strictly decrease in the order fast, standard, cautious
C9_Original ==
    Called =>
        /\ Ge(annealSoakHours(AtLevel(call, "cautious")),
              annealSoakHours(AtLevel(call, "standard")))
        /\ Ge(annealSoakHours(AtLevel(call, "standard")),
              annealSoakHours(AtLevel(call, "fast")))
        /\ Gt(rate1_F(AtLevel(call, "fast")), rate1_F(AtLevel(call, "standard")))
        /\ Gt(rate1_F(AtLevel(call, "standard")), rate1_F(AtLevel(call, "cautious")))
        /\ Gt(rate2_F(AtLevel(call, "fast")), rate2_F(AtLevel(call, "standard")))
        /\ Gt(rate2_F(AtLevel(call, "standard")), rate2_F(AtLevel(call, "cautious")))

\* C10: Rate 1 never exceeds 300 C/hr = 540 F/hr and Rate 2 never exceeds 400 C/hr =
\* 720 F/hr, in the engine and in the rates the Paragon script prints
C10_RatesCapped ==
    Called =>
        /\ Le(r1_C(call), R(300)) /\ Le(rate1_F(call), R(540))
        /\ Le(r2_C(call), R(400)) /\ Le(rate2_F(call), R(720))
        /\ Le(SegmentNamed(result, "Anneal -> Strain").ra,
              IF call.units = "metric" THEN R(300) ELSE R(540))
        /\ Le(SegmentNamed(result, "Strain -> Cool").ra,
              IF call.units = "metric" THEN R(400) ELSE R(720))

C10_Witness ==
    /\ Called /\ call.glassType = "Simax / Pyrex (Borosilicate COE 33)"
    /\ call.conservativeness = "fast" /\ call.units = "metric"
    /\ Gt(coolingRateC(R(15), call), R(300)) /\ Eq(r1_C(call), R(300))
    /\ Gt(coolingRateC(R(27), call), R(400)) /\ Eq(r2_C(call), R(400))
    /\ Eq(SegmentNamed(result, "Anneal -> Strain").ra, R(300))

\* the request r with a timed process hold of 0 minutes
TimedZeroHold(r) == [r EXCEPT !.processHoldIndefinite = FALSE, !.customProcessHoldMins = R(0)]

\* as many waypoints, each at the same time
SameTimes(ps, qs) ==
    Len(ps) = Len(qs) /\ \A i \in 1 .. Len(ps) : Eq(ps[i].time, qs[i].time)

\* C11: in every mode but anneal_only a schedule with the indefinite flag has every
\* waypoint, the last included, at the time it has in the schedule of the same request
\* with the flag off and a hold of 0 minutes, whatever hold is passed with the flag
C11_IndefiniteHoldTakesNoTime ==
    (Called /\ call.mode # "anneal_only" /\ call.processHoldIndefinite) =>
        SameTimes(result.points, schedulePointsOf(TimedZeroHold(call)))

C11_Witness ==
    /\ Called /\ call.mode = "cast" /\ call.processHoldIndefinite
    /\ call.customProcessHoldMins # Undef /\ Eq(call.customProcessHoldMins, R(45))
    /\ Eq(Labelled(result, "Process Hold (Indefinite)").time, Labelled(result, "Reach Cast").time)

\* the request r without the mold-dry arguments
WithoutMoldDry(r) == [r EXCEPT !.moldDryHours = Undef, !.moldDryTemp = Undef]

\* the same label, time and temperature
SamePoint(p, q) == p.label = q.label /\ Eq(p.time, q.time) /\ Eq(p.temp, q.temp)

\* C12: in cast mode with moldDryHours > 0 the schedule has two waypoints more than
\* without the mold-dry arguments, Mold Dry Reach and Mold Dry Hold, right after Start
\* and before the waypoint of the process ramp, the hold moldDryHours after the reach;
\* in the other modes the mold-dry arguments change no waypoint
C12_MoldDryOnlyInCast ==
    Called =>
        LET base == schedulePointsOf(WithoutMoldDry(call))
            ps == result.points
        IN  IF call.mode = "cast" /\ Numeric(call.moldDryHours) /\ Gt(call.moldDryHours, Zero)
            THEN /\ Len(ps) = Len(base) + 2
                 /\ SamePoint(ps[1], base[1])
                 /\ ps[2].label = "Mold Dry Reach" /\ ps[3].label = "Mold Dry Hold"
                 /\ Eq(ps[3].time, Add(ps[2].time, call.moldDryHours))
                 /\ ps[4].label = "Reach Cast"
                 /\ \A i \in 2 .. Len(base) : ps[i + 2].label = base[i].label
            ELSE call.mode # "cast" =>
                    /\ Len(ps) = Len(base)
                    /\ \A i \in 1 .. Len(base) : SamePoint(ps[i], base[i])

C12_Witness ==
    /\ Called /\ call.mode = "cast" /\ Numeric(call.moldDryHours)
    /\ Eq(call.moldDryHours, R(2)) /\ Numeric(call.moldDryTemp)
    /\ Len(result.points) = 9
    /\ Eq(Sub(result.points[3].time, result.points[2].time), R(2))

\* x and y rounded to whole units differ by at most 1
Within1(x, y) ==
    /\ Le(Sub(MathRound(x), MathRound(y)), R(1))
    /\ Le(Sub(MathRound(y), MathRound(x)), R(1))

\* as many waypoints, each within one degree and one hour of the other's
ClosePoints(ps, qs) ==
    /\ Len(ps) = Len(qs)
    /\ \A i \in 1 .. Len(ps) : Within1(ps[i].temp, qs[i].temp) /\ Within1(ps[i].time, qs[i].time)

\* the schedule Generate Schedule computes for the form f
scheduleOfForm(f) == calculateSchedule(buildRequest(f, parseFloat(f.thickness), f.units))

\* C13: when toggleUnits has brought a form from imperial to metric and a second
\* toggleUnits brings it back to imperial, the recomputed schedule has the waypoints of
\* the schedule of the imperial form the round trip began with, each temperature and
\* each time (in hours, the unit of a waypoint's time) within 1 unit after rounding
C13_UnitRoundTrip ==
    [][(op = "toggleUnits" /\ op' = "toggleUnits" /\ form'.units = "imperial"
           /\ call # NoCall /\ call' # NoCall) =>
          \A f0 \in RoundTripForms :
              convertedForm(f0, "metric") = form =>
                  ClosePoints(result'.points, scheduleOfForm(f0).points)]_vars

\* the Fahrenheit temperature f in the units of the request
Displayed(units, f) == IF units = "metric" THEN Div(Mul(Sub(f, R(32)), R(5)), R(9)) ELSE f

\* the hours between waypoint i - 1 and waypoint i
Elapsed(ps, i) == Sub(ps[i].time, ps[i - 1].time)

\* C14: in every mode the last three waypoints are Anneal Soak, at the resolved anneal
\* temperature like the waypoint before it and annealSoakHours after it, Strain Point,
\* at the strain point (anneal - strain) / Rate 1 hours later, and Finished, at the
\* unload temperature (strain - unload) / Rate 2 hours later; the last waypoint has
\* the temperature of the first
C14_AnnealTail ==
    Called =>
        LET ps == result.points
            n == Len(ps)
            a == annealTemp(call)
            sp == strainPoint(call)
        IN  /\ n >= 5
            /\ ps[n - 2].label = "Anneal Soak" /\ ps[n - 2].segment_type = "soak"
            /\ Eq(ps[n - 2].temp, Displayed(call.units, a))
            /\ Eq(ps[n - 3].temp, Displayed(call.units, a))
            /\ Eq(Elapsed(ps, n - 2), annealSoakHours(call))
            /\ ps[n - 1].label = "Strain Point"
            /\ Eq(ps[n - 1].temp, Displayed(call.units, sp))
            /\ Eq(Elapsed(ps, n - 1), Div(Sub(a, sp), rate1_F(call)))
            /\ ps[n].label = "Finished"
            /\ Eq(ps[n].temp, Displayed(call.units, R(150)))
            /\ Eq(Elapsed(ps, n), Div(Sub(sp, R(150)), rate2_F(call)))
            /\ Eq(ps[n].temp, ps[1].temp)

C14_Witness ==
    /\ Called /\ call.mode = "full_fuse" /\ call.units = "metric"
    /\ call.glassType = "Satake (COE 110-120)"
    /\ Len(result.points) = 7
    /\ result.points[5].label = "Anneal Soak"
    /\ Eq(result.points[5].temp, R(480)) /\ Eq(result.points[6].temp, R(430))
    /\ Gt(Elapsed(result.points, 6), Zero)

\* a whole number
Whole(x) == IsFinite(x) /\ Eq(MathFloor(x), x)

\* the time string str is the hh:mm of a number of minutes: whole hours and whole
\* minutes below 60 that add up to it
IsHhMmOf(str, mins) ==
    /\ Whole(str[1]) /\ Whole(str[2])
    /\ Le(Zero, str[2]) /\ Lt(str[2], R(60))
    /\ Eq(Add(Mul(str[1], R(60)), str[2]), mins)

\* C15: the Digitry script has one step for each waypoint after Start, numbered 1, 2, ..
\* in the order of the waypoints, and step k states the label of waypoint k, its
\* temperature rounded and its time, rounded to whole minutes, as hh:mm
C15_DigitryStepPerWaypoint ==
    Called =>
        LET ps == result.points
            steps == result.digitry_instructions.steps
        IN  /\ Len(steps) = Len(ps) - 1
            /\ \A k \in 1 .. Len(ps) - 1 :
                  /\ steps[k].step = k
                  /\ steps[k].label = ps[k + 1].label
                  /\ Eq(steps[k].temp, MathRound(ps[k + 1].temp))
                  /\ IsHhMmOf(steps[k].time, MathRound(Mul(ps[k + 1].time, R(60))))

\* C15 for the waypoints whose time is not negative
C15_NonNegativeTimes ==
    Called =>
        LET ps == result.points
            steps == result.digitry_instructions.steps
        IN  /\ Len(steps) = Len(ps) - 1
            /\ \A k \in 1 .. Len(ps) - 1 :
                  /\ steps[k].step = k
                  /\ steps[k].label = ps[k + 1].label
                  /\ Eq(steps[k].temp, MathRound(ps[k + 1].temp))
                  /\ Ge(ps[k + 1].time, Zero) =>
                        IsHhMmOf(steps[k].time, MathRound(Mul(ps[k + 1].time, R(60))))

\* a time string hh:mm: whole hours, not negative, and whole minutes from 0 to 59
IsTimeStr(str) ==
    /\ Len(str) = 2
    /\ Whole(str[1]) /\ Ge(str[1], Zero)
    /\ Whole(str[2]) /\ Ge(str[2], Zero) /\ Lt(str[2], R(60))

\* the segment states the sentinel rate 9999 if it is Cool to Anneal and a whole
\* number other than 9999 if not, and a whole number as its target temperature
RateAndTargetStated(seg) ==
    /\ IF seg.name = "Cool to Anneal" THEN Eq(seg.ra, R(9999))
       ELSE Whole(seg.ra) /\ ~Eq(seg.ra, R(9999))
    /\ Whole(seg.temp)

\* C16 as amended: in the Paragon script of every mode but anneal_only the segment from
\* the process to the anneal temperature, Cool to Anneal, states the rate 9999, every
\* other segment of every script states a numeric rate, and every segment states a
\* target temperature and a hold as hh:mm, except the Process segment of an indefinite
\* hold, which states HOLD (INDEFINITE HOLD) in place of the time
C16_ParagonSegments ==
    Called =>
        LET segs == result.paragon_instructions.segments
        IN  /\ call.mode # "anneal_only" =>
                  \E i \in 1 .. Len(segs) :
                      /\ segs[i].name = "Cool to Anneal"
                      /\ i > 1 /\ segs[i - 1].name = "Process"
                      /\ Eq(segs[i - 1].temp, MathRound(Displayed(call.units, processTemp(call))))
                      /\ Eq(segs[i].temp, MathRound(Displayed(call.units, annealTemp(call))))
            /\ \A i \in 1 .. Len(segs) :
                  /\ RateAndTargetStated(segs[i])
                  /\ IF segs[i].name = "Process" /\ call.processHoldIndefinite
                     THEN segs[i].hld = <<"HOLD">> /\ segs[i].note = " (INDEFINITE HOLD)"
                     ELSE IsTimeStr(segs[i].hld) /\ segs[i].note = ""

C16_Witness ==
    /\ Called /\ call.mode = "slump" /\ call.processHoldIndefinite
    /\ SegmentNamed(result, "Process").hld = <<"HOLD">>
    /\ Eq(SegmentNamed(result, "Cool to Anneal").ra, R(9999))
    /\ IsTimeStr(SegmentNamed(result, "Cool to Anneal").hld)

\* C16 as stated: Cool to Anneal states the rate 9999, every other segment a numeric
\* rate, and every segment a target temperature and a hold as hh:mm
C16_Original ==
    Called =>
        LET segs == result.paragon_instructions.segments
        IN  \A i \in 1 .. Len(segs) :
                RateAndTargetStated(segs[i]) /\ IsTimeStr(segs[i].hld)

\* the Fahrenheit rate x in the units of the request
DisplayedRate(units, x) == IF units = "metric" THEN Div(Mul(x, R(5)), R(9)) ELSE x

\* the internal Fahrenheit temperature a segment of the Paragon script goes to
SegmentFahrenheit(name, r) ==
    CASE name = "Mold Dry" -> moldDryTempF(r)
      [] name = "Process" -> processTemp(r)
      [] name \in {"Cool to Anneal", "Ramp to Soak"} -> annealTemp(r)
      [] name = "Anneal -> Strain" -> strainPoint(r)
      [] name = "Strain -> Cool" -> R(150)

\* the internal rate, in F/hr, of a segment of the Paragon script other than Cool to Anneal
SegmentFahrenheitRate(name, r) ==
    CASE name \in {"Mold Dry", "Process", "Ramp to Soak"} -> rampToProcessRate(r)
      [] name = "Anneal -> Strain" -> rate1_F(r)
      [] name = "Strain -> Cool" -> rate2_F(r)

\* the internal Fahrenheit temperature of a waypoint
WaypointFahrenheit(label, r) ==
    CASE label \in {"Start", "Finished"} -> R(150)
      [] label \in {"Mold Dry Reach", "Mold Dry Hold"} -> moldDryTempF(r)
      [] label \in {"Process Reach", "Reach Cast", "Process Complete",
                    "Process Hold (Indefinite)"} -> processTemp(r)
      [] label \in {"Cool to Anneal", "Reach Soak", "Anneal Soak"} -> annealTemp(r)
      [] label = "Strain Point" -> strainPoint(r)

AtMode(r, m) == [r EXCEPT !.mode = m]

\* the target temperature the library glass g defines for a mode
LibraryTarget(g, m) ==
    CASE m = "slump" -> GLASS_LIBRARY(g).slump_temp
      [] m = "tack_fuse" -> GLASS_LIBRARY(g).tack_fuse_temp
      [] m = "full_fuse" -> GLASS_LIBRARY(g).full_fuse_temp
      [] m = "cast" -> GLASS_LIBRARY(g).cast_temp

\* the offset of the process temperature of a mode above the anneal temperature
OffsetOf(r, m) == Sub(processTemp(AtMode(r, m)), annealTemp(r))

\* the waypoint at which the process temperature is reached
ProcessReach(res, m) == Labelled(res, IF m = "cast" THEN "Reach Cast" ELSE "Process Reach")

\* C18: without a process-temperature override the process temperature is the target
\* the glass defines for the mode and, for Custom, which defines none, the resolved
\* anneal temperature plus 325 (slump), 400 (tack_fuse), 550 (full_fuse) or 600 (cast),
\* offsets that increase strictly in this order; in anneal_only it is the anneal
\* temperature
C18_ProcessTempDefault ==
    (Called /\ call.customProcessTemp = Undef) =>
        /\ call.mode = "anneal_only" => Eq(processTemp(call), annealTemp(call))
        /\ (call.mode # "anneal_only" /\ call.glassType # "Custom") =>
              /\ LibraryTarget(call.glassType, call.mode) # Undef
              /\ Eq(processTemp(call), LibraryTarget(call.glassType, call.mode))
              /\ Eq(ProcessReach(result, call.mode).temp,
                    Displayed(call.units, LibraryTarget(call.glassType, call.mode)))
        /\ call.glassType = "Custom" =>
              /\ Eq(OffsetOf(call, "slump"), R(325)) /\ Eq(OffsetOf(call, "tack_fuse"), R(400))
              /\ Eq(OffsetOf(call, "full_fuse"), R(550)) /\ Eq(OffsetOf(call, "cast"), R(600))
              /\ Lt(OffsetOf(call, "slump"), OffsetOf(call, "tack_fuse"))
              /\ Lt(OffsetOf(call, "tack_fuse"), OffsetOf(call, "full_fuse"))
              /\ Lt(OffsetOf(call, "full_fuse"), OffsetOf(call, "cast"))
              /\ call.mode # "anneal_only" =>
                    Eq(ProcessReach(result, call.mode).temp,
                       Displayed(call.units, Add(annealTemp(call), OffsetOf(call, call.mode))))

C18_Witness ==
    /\ Called /\ call.glassType = "Custom" /\ call.mode = "cast" /\ call.units = "metric"
    /\ call.customProcessTemp = Undef
    /\ Numeric(call.customAnneal) /\ Eq(annealTemp(call), R(950))
    /\ Eq(processTemp(call), R(1550))
    /\ Eq(Labelled(result, "Reach Cast").temp, Displayed("metric", R(1550)))

\* neither a hold override nor the indefinite flag
DefaultHold(r) == r.customProcessHoldMins = Undef /\ ~r.processHoldIndefinite

\* the process hold, in minutes, of the request r in the mode m
HoldIn(r, m) == processHoldMins(AtMode(r, m))

\* the hours between reaching the process temperature and the end of the process hold
HoldHoursIn(res, m) ==
    Sub(Labelled(res, "Process Complete").time, ProcessReach(res, m).time)

\* C19 as amended: without hold override and indefinite flag the process hold is a
\* fixed number of minutes for each mode, 20 for slump, 10 for tack_fuse, 15 for
\* full_fuse and 30 for cast: it grows from tack_fuse to full_fuse to cast, cast has
\* the longest hold, and the hold of slump is longer than those of tack_fuse and
\* full_fuse
C19_DefaultHolds ==
    (Called /\ DefaultHold(call)) =>
        /\ Eq(HoldIn(call, "slump"), R(20)) /\ Eq(HoldIn(call, "tack_fuse"), R(10))
        /\ Eq(HoldIn(call, "full_fuse"), R(15)) /\ Eq(HoldIn(call, "cast"), R(30))
        /\ Le(HoldIn(call, "tack_fuse"), HoldIn(call, "full_fuse"))
        /\ Le(HoldIn(call, "full_fuse"), HoldIn(call, "cast"))
        /\ \A m \in ScheduleModes : Le(HoldIn(call, m), HoldIn(call, "cast"))
        /\ Gt(HoldIn(call, "slump"), HoldIn(call, "full_fuse"))
        /\ call.mode # "anneal_only" =>
              Eq(HoldHoursIn(result, call.mode), Div(HoldIn(call, call.mode), R(60)))

C19_Witness ==
    /\ Called /\ DefaultHold(call) /\ call.mode = "slump"
    /\ Eq(HoldHoursIn(result, "slump"), Frac(1, 3))
    /\ Eq(SegmentNamed(result, "Process").hld[2], R(20))

\* C19 as stated: without hold override and indefinite flag the process hold is a fixed
\* number of minutes for each mode with hold(slump) <= hold(tack_fuse) <=
\* hold(full_fuse) <= hold(cast), cast having the longest hold
C19_Original ==
    (Called /\ DefaultHold(call)) =>
        /\ Le(HoldIn(call, "slump"), HoldIn(call, "tack_fuse"))
        /\ Le(HoldIn(call, "tack_fuse"), HoldIn(call, "full_fuse"))
        /\ Le(HoldIn(call, "full_fuse"), HoldIn(call, "cast"))
        /\ \A m \in ScheduleModes : Le(HoldIn(call, m), HoldIn(call, "cast"))
        /\ call.mode # "anneal_only" =>
              Eq(HoldHoursIn(result, call.mode), Div(HoldIn(call, call.mode), R(60)))

\* thickness in mm times the shape multiplier
EffectiveMm(r) ==
    Mul(Mul(r.thickness, IF r.units = "metric" THEN R(10) ELSE Frac(254, 10)),
        CASE r.shape = "slab" -> R(1) [] r.shape = "uneven" -> Frac(3, 2)
          [] r.shape = "hollow_deep" -> R(2))

\* 400 F/hr up to and including 25 mm, 200 up to and including 50 mm, 100 above
BandRate(eff) == IF Le(eff, R(25)) THEN R(400) ELSE IF Le(eff, R(50)) THEN R(200) ELSE R(100)

\* the segments of the Paragon script that ramp at the rate rate, as displayed
RampSegmentsAt(res, units, rate) ==
    LET segs == res.paragon_instructions.segments
    IN  \A i \in 1 .. Len(segs) :
            segs[i].name \in {"Mold Dry", "Process", "Ramp to Soak"} =>
                Eq(segs[i].ra, MathRound(DisplayedRate(units, rate)))

\* C20: without a ramp override the ramp rate is 400 F/hr for an effective thickness
\* up to and including 25 mm, 200 F/hr above 25 mm up to and including 50 mm and
\* 100 F/hr above 50 mm, so it never increases with the thickness, and this one rate
\* is that of the ramp to the process temperature, of the mold-dry ramp and of the
\* ramp to soak of anneal_only
C20_RampBands ==
    (Called /\ call.customProcessRamp = Undef) =>
        LET rate == BandRate(EffectiveMm(call))
            ps == result.points
        IN  /\ Eq(rampToProcessRate(call), rate)
            /\ Le(rampToProcessRate(Doubled(call)), rampToProcessRate(call))
            /\ RampSegmentsAt(result, call.units, rate)
            /\ call.mode = "anneal_only" =>
                  /\ ps[2].label = "Reach Soak"
                  /\ Eq(ps[2].time, Div(Sub(annealTemp(call), R(150)), rate))
            /\ (call.mode # "anneal_only" /\ ps[2].label # "Mold Dry Reach") =>
                  Eq(ps[2].time, Div(Sub(processTemp(call), R(150)), rate))
            /\ (call.mode # "anneal_only" /\ ps[2].label = "Mold Dry Reach") =>
                  /\ Eq(ps[2].time, Div(Sub(moldDryTempF(call), R(150)), rate))
                  /\ Eq(Elapsed(ps, 4), Div(Sub(processTemp(call), moldDryTempF(call)), rate))

C20_Witness ==
    /\ Called /\ call.customProcessRamp = Undef /\ call.mode = "cast"
    /\ Eq(EffectiveMm(call), R(50))
    /\ Eq(rampToProcessRate(call), R(200))
    /\ result.points[2].label = "Mold Dry Reach"
    /\ Eq(result.points[2].time, Frac(1, 2))
    /\ Eq(SegmentNamed(result, "Mold Dry").ra, R(111))

\* the conservativeness multiplier
FactorOf(r) ==
    CASE r.conservativeness = "fast" -> Frac(3, 4) [] r.conservativeness = "standard" -> R(1)
      [] r.conservativeness = "cautious" -> Frac(3, 2)

\* the request r in another shape
AtShape(r, sh) == [r EXCEPT !.shape = sh]

\* the hours between the waypoint before Anneal Soak and Anneal Soak
SoakElapsed(res) == Elapsed(res.points, Len(res.points) - 2)

\* C21: the anneal soak is max(0.5, 0.16 * effective thickness in mm) times the
\* conservativeness factor: never below 0.5 h times the factor, and never shorter for
\* a larger thickness or a larger shape multiplier at the same conservativeness
C21_SoakMonotone ==
    Called =>
        /\ Eq(SoakElapsed(result),
              Mul(MathMax(Frac(1, 2), Mul(Frac(16, 100), EffectiveMm(call))), FactorOf(call)))
        /\ Ge(SoakElapsed(result), Mul(Frac(1, 2), FactorOf(call)))
        /\ Ge(annealSoakHours(Doubled(call)), annealSoakHours(call))
        /\ Le(annealSoakHours(AtShape(call, "slab")), annealSoakHours(AtShape(call, "uneven")))
        /\ Le(annealSoakHours(AtShape(call, "uneven")),
              annealSoakHours(AtShape(call, "hollow_deep")))

C21_Witness ==
    /\ Called /\ call.conservativeness = "cautious"
    /\ Lt(Mul(Frac(16, 100), EffectiveMm(call)), Frac(1, 2))
    /\ Eq(SoakElapsed(result), Frac(3, 4))
    /\ Gt(annealSoakHours(AtShape(call, "hollow_deep")), annealSoakHours(call))

\* the labels of the waypoints
LabelsOf(res) == [i \in 1 .. Len(res.points) |-> res.points[i].label]

\* C22: anneal_only yields the 5 waypoints Start, Reach Soak, Anneal Soak, Strain Point,
\* Finished, with one ramp from the unload to the anneal temperature; every other mode
\* without mold drying yields the 7 waypoints Start, process reach, process hold, Cool
\* to Anneal, Anneal Soak, Strain Point, Finished, the reach and the hold at the same
\* temperature
C22_WaypointShape ==
    Called =>
        /\ call.mode = "anneal_only" =>
              /\ LabelsOf(result) =
                    <<"Start", "Reach Soak", "Anneal Soak", "Strain Point", "Finished">>
              /\ Eq(result.points[1].temp, Displayed(call.units, R(150)))
              /\ Eq(result.points[2].temp, Displayed(call.units, annealTemp(call)))
              /\ result.points[2].segment_type = "heat"
        /\ (call.mode # "anneal_only" /\ ~hasMoldDry(call)) =>
              /\ LabelsOf(result) =
                    <<"Start", IF call.mode = "cast" THEN "Reach Cast" ELSE "Process Reach",
                      IF call.processHoldIndefinite THEN "Process Hold (Indefinite)"
                      ELSE "Process Complete",
                      "Cool to Anneal", "Anneal Soak", "Strain Point", "Finished">>
              /\ Eq(result.points[2].temp, result.points[3].temp)
              /\ Eq(result.points[2].temp, Displayed(call.units, processTemp(call)))

C22_Witness ==
    /\ Called /\ call.mode = "full_fuse" /\ call.processHoldIndefinite
    /\ Len(result.points) = 7
    /\ result.points[3].label = "Process Hold (Indefinite)"
    /\ Eq(result.points[3].temp, R(1490))

\* the steps of the Digitry script
StepsOf(res) == res.digitry_instructions.steps

\* C23: in the Digitry script the step of an indefinite hold carries the hold marker
\* instead of a time, so no hh:mm is printed for it, and a step carries the marker
\* if and only if processHoldIndefinite was set for the request
C23_HoldMarkerInsteadOfTime ==
    Called =>
        /\ (\E k \in 1 .. Len(StepsOf(result)) : StepsOf(result)[k].hold)
              <=> call.processHoldIndefinite
        /\ \A k \in 1 .. Len(StepsOf(result)) :
              StepsOf(result)[k].hold => ~IsTimeStr(StepsOf(result)[k].time)

\* what the Digitry script does for the hold marker: the marker follows the hh:mm of
\* the step, only the step of the waypoint Process Hold (Indefinite) carries it, and
\* there is such a step exactly when the flag is set in a mode other than anneal_only
C23_MarkerAfterTime ==
    Called =>
        /\ (\E k \in 1 .. Len(StepsOf(result)) : StepsOf(result)[k].hold)
              <=> (call.processHoldIndefinite /\ call.mode # "anneal_only")
        /\ \A k \in 1 .. Len(StepsOf(result)) :
              /\ IsTimeStr(StepsOf(result)[k].time) \/ Lt(result.points[k + 1].time, Zero)
              /\ StepsOf(result)[k].hold
                    <=> (StepsOf(result)[k].label = "Process Hold (Indefinite)")

\* the SEG numbers of the Paragon script, in the order printed
SegNumbersOf(res) ==
    [i \in 1 .. Len(res.paragon_instructions.segments) |->
        res.paragon_instructions.segments[i].seg]

\* C25: the segments of the Paragon script are numbered 1, 2, .., k with no number
\* skipped or repeated, in every mode and with or without mold drying (the RA, the
\* temperature and the HLD line of a segment are printed with the segment's one number)
C25_SegmentsNumberedConsecutively ==
    Called => \A i \in 1 .. Len(SegNumbersOf(result)) : SegNumbersOf(result)[i] = i

\* what the Paragon script does: anneal_only numbers 1, 2, 3; every other mode passes
\* over the number before Process
C25_NumberSkippedBeforeProcess ==
    Called =>
        SegNumbersOf(result) =
            CASE call.mode = "anneal_only" -> <<1, 2, 3>>
              [] call.mode # "anneal_only" /\ hasMoldDry(call) -> <<1, 3, 4, 5, 6>>
              [] OTHER -> <<2, 3, 4, 5>>

\* no temperature is overridden
NoTemperatureOverride(r) ==
    /\ r.customAnneal = Undef /\ r.customStrain = Undef
    /\ r.customProcessTemp = Undef /\ r.moldDryTemp = Undef

\* the temperatures of the glass lie in the order of the firing
LibraryOrdered(props) ==
    /\ Lt(unloadTemp, props.strain_point)
    /\ Lt(props.strain_point, props.anneal_temp)
    /\ Lt(props.anneal_temp, props.slump_temp)
    /\ Lt(props.slump_temp, props.tack_fuse_temp)
    /\ Lt(props.tack_fuse_temp, props.full_fuse_temp)
    /\ Lt(props.full_fuse_temp, props.cast_temp)

\* the temperatures of the waypoints never fall before waypoint k and never rise after it
PeaksAt(ps, k) ==
    /\ \A i \in 1 .. k - 1 : Le(ps[i].temp, ps[i + 1].temp)
    /\ \A i \in k .. Len(ps) - 1 : Ge(ps[i].temp, ps[i + 1].temp)

\* the highest temperature of the firing, in Fahrenheit
PeakFahrenheit(r) == IF r.mode = "anneal_only" THEN annealTemp(r) ELSE processTemp(r)

\* C29: every glass of the library other than Custom has
\* 150 < strain_point < anneal_temp < slump_temp < tack_fuse_temp < full_fuse_temp <
\* cast_temp, so that without a temperature override the waypoint temperatures rise
\* weakly to the process temperature (the anneal temperature when only annealing),
\* fall weakly from there and end at the unload temperature
C29_LibraryOrdered ==
    (Called /\ call.glassType # "Custom" /\ NoTemperatureOverride(call)) =>
        /\ LibraryOrdered(GLASS_LIBRARY(call.glassType))
        /\ \E k \in 2 .. Len(result.points) - 1 :
              /\ PeaksAt(result.points, k)
              /\ Eq(result.points[k].temp, Displayed(call.units, PeakFahrenheit(call)))
        /\ Eq(result.points[Len(result.points)].temp, Displayed(call.units, unloadTemp))

C29_Witness ==
    /\ Called /\ call.glassType = "Bullseye (COE 90)" /\ call.mode = "cast"
    /\ hasMoldDry(call) /\ NoTemperatureOverride(call) /\ call.units = "imperial"
    /\ Len(result.points) = 9
    /\ Eq(result.points[4].temp, R(1525)) /\ Eq(result.points[2].temp, R(250))
    /\ PeaksAt(result.points, 4)

\* the last step drew the chart for the waypoints result.points
Drawn == op = "AnnealingChart"

IsHoldTrace(trace) == trace.name = "Indefinite Hold"
IsOtherTrace(trace) == trace.name # "Indefinite Hold"

\* the number of positions of the sequence ts that hold t
Occurrences(ts, t) == Cardinality({k \in 1 .. Len(ts) : ts[k] = t})

\* C26: in the chart every trace named Indefinite Hold comes after every other
\* trace, for every waypoint sequence, and the other traces keep the order in
\* which they were built (the chart shows the traces built, each as often as built)
C26_HoldTracesLast ==
    Drawn =>
        /\ \A i, j \in 1 .. Len(chart.data) :
              (IsHoldTrace(chart.data[i]) /\ IsOtherTrace(chart.data[j])) => j < i
        /\ SelectSeq(chart.data, IsOtherTrace)
              = SelectSeq(buildTraces(result.points), IsOtherTrace)
        /\ Len(chart.data) = Len(buildTraces(result.points))
        /\ \A k \in 1 .. Len(chart.data) :
              Occurrences(chart.data, chart.data[k])
                  = Occurrences(buildTraces(result.points), chart.data[k])

\* two hold traces were built with another trace between them and more after them
C26_Witness ==
    /\ Drawn
    /\ Len(chart.data) = 4
    /\ IsHoldTrace(buildTraces(result.points)[1])
    /\ IsOtherTrace(buildTraces(result.points)[2])
    /\ IsHoldTrace(buildTraces(result.points)[3])
    /\ IsOtherTrace(buildTraces(result.points)[4])
    /\ IsHoldTrace(chart.data[3]) /\ IsHoldTrace(chart.data[4])
    /\ chart.data[3] = buildTraces(result.points)[3]

\* the points i and i + 1 (counted from 0) are neighbours in the trace
DrawsPair(trace, i) ==
    \E j \in 1 .. Len(trace.indices) - 1 :
        trace.indices[j] = i /\ trace.indices[j + 1] = i + 1

\* the traces of the chart that draw the line from point i to point i + 1
TracesOfPair(i) == {k \in 1 .. Len(chart.data) : DrawsPair(chart.data[k], i)}

\* the trace draws the points at its indices
DrawsItsPoints(trace, points) ==
    /\ Len(trace.x) = Len(trace.indices) /\ Len(trace.y) = Len(trace.indices)
    /\ \A j \in 1 .. Len(trace.indices) :
          /\ trace.indices[j] \in 0 .. Len(points) - 1
          /\ trace.x[j] = at(points, trace.indices[j]).time
          /\ trace.y[j] = at(points, trace.indices[j]).temp

\* C27: the traces cover the polyline exactly once: every pair of consecutive
\* waypoints (points[i], points[i+1]) is drawn by exactly one trace, which has the
\* category name of points[i+1]; consecutive pairs of one category are drawn by one
\* trace; and every trace built after the first starts at the last point of the
\* trace built before it
C27_TracesCoverPolyline ==
    Drawn =>
        /\ \A i \in 0 .. Len(result.points) - 2 :
              /\ Cardinality(TracesOfPair(i)) = 1
              /\ \A k \in TracesOfPair(i) :
                    chart.data[k].name = getLabel(at(result.points, i + 1).segment_type)
        /\ \A i \in 0 .. Len(result.points) - 3 :
              getLabel(at(result.points, i + 1).segment_type)
                  = getLabel(at(result.points, i + 2).segment_type)
              => TracesOfPair(i) = TracesOfPair(i + 1)
        /\ \A k \in 1 .. Len(chart.data) : DrawsItsPoints(chart.data[k], result.points)
        /\ \A k \in 2 .. Len(buildTraces(result.points)) :
              buildTraces(result.points)[k].indices[1]
                  = buildTraces(result.points)[k - 1].indices[
                        Len(buildTraces(result.points)[k - 1].indices)]

\* three traces: three points of one category, then one of a second and one of a third
C27_Witness ==
    /\ Drawn
    /\ Len(result.points) = 5
    /\ Len(chart.data) = 3
    /\ \E k \in 1 .. 3 : chart.data[k].indices = <<0, 1, 2>>
    /\ \E k \in 1 .. 3 : chart.data[k].indices = <<2, 3>> /\ chart.data[k].name = "Cooling"
    /\ \E k \in 1 .. 3 : chart.data[k].indices = <<3, 4>> /\ IsHoldTrace(chart.data[k])

\* the last step called calculateSchedule and the chart of its result is on the page
Charted == call # NoCall /\ result # NoResult /\ chart # NoChart

\* C24: the process-hold waypoint is classified as an indefinite hold, and the chart
\* names and colours it Indefinite Hold, only for a request with processHoldIndefinite
C24_HoldMarkedOnlyWithFlag ==
    Charted =>
        /\ \A i \in 1 .. Len(result.points) :
              result.points[i].segment_type = "process_hold" => call.processHoldIndefinite
        /\ \A k \in 1 .. Len(chart.data) :
              (chart.data[k].name = "Indefinite Hold" \/ chart.data[k].color = "#eab308")
                  => call.processHoldIndefinite

\* what the engine and the chart do: every request in a mode other than anneal_only,
\* with or without the flag, has one waypoint of type process_hold, drawn as the last
\* trace of the chart and named Indefinite Hold
C24_EveryHoldNamedIndefinite ==
    Charted =>
        /\ (\E i \in 1 .. Len(result.points) : result.points[i].segment_type = "process_hold")
              <=> call.mode # "anneal_only"
        /\ call.mode # "anneal_only" =>
              /\ chart.data[Len(chart.data)].name = "Indefinite Hold"
              /\ chart.data[Len(chart.data)].color = "#eab308"

\* C28: whenever a result is stored it was computed for the unit system selected in
\* the form: its scripts and the axis of its chart are in the units of the form
C28_ResultInSelectedUnits ==
    result # NoResult =>
        /\ result.paragon_instructions.tempUnit = tempUnit(form.units)
        /\ result.digitry_instructions.tempUnit = tempUnit(form.units)

\* what the form keeps: the chart axis always names the selected units, and the
\* result is in the selected units unless the thickness field does not parse
C28_ResultInUnitsIfThicknessParses ==
    result # NoResult =>
        /\ chart.yaxis = yaxisTitle(form.units)
        /\ ~IsNaN(parseFloat(form.thickness)) =>
              result.paragon_instructions.tempUnit = tempUnit(form.units)

\* a waypoint time is not a number or not finite
SomeTimeNotFinite(res) == \E i \in 1 .. Len(res.points) : ~IsFinite(res.points[i].time)

\* C30: for every positive finite thickness and every glass, shape and
\* conservativeness level Rate 1 and Rate 2 are strictly positive and finite and
\* Rate 2 >= Rate 1; the ramp rate that divides the heating legs is never 0 (an
\* override of 0 is not used); so no waypoint time is the result of a division by 0
C30_RatesPositive ==
    (Called /\ IsFinite(call.thickness) /\ Gt(call.thickness, Zero)) =>
        /\ Gt(rate1_F(call), Zero) /\ IsFinite(rate1_F(call))
        /\ Gt(rate2_F(call), Zero) /\ IsFinite(rate2_F(call))
        /\ Ge(rate2_F(call), rate1_F(call))
        /\ ~IsZero(rampToProcessRate(call)) /\ IsFinite(rampToProcessRate(call))
        /\ ~SomeTimeNotFinite(result)

\* what holds over the whole range: the ramp rate is never 0 and Rate 2 >= Rate 1 >= 0;
\* and up to the thicknesses of the ramp bands, and at 10^-320, the rates are positive
\* and every waypoint time is finite
C30_RatesPositiveBelowOverflow ==
    (Called /\ IsFinite(call.thickness) /\ Gt(call.thickness, Zero)) =>
        /\ Ge(rate2_F(call), rate1_F(call)) /\ Ge(rate1_F(call), Zero)
        /\ ~IsZero(rampToProcessRate(call)) /\ IsFinite(rampToProcessRate(call))
        /\ Le(call.thickness, R(6)) =>
              /\ Gt(rate1_F(call), Zero) /\ IsFinite(rate2_F(call))
              /\ ~SomeTimeNotFinite(result)

=============================================================================
